---- MODULE Spec2Model ----
(***************************************************************************)
(* A model of the metadata reconciliation and derivation engine of         *)
(* opendbc: the part-composition resolvers, the count annotation of the    *)
(* JSON extractors, the flag-driven footnote engine, the Hyundai and       *)
(* Subaru processors, the sentinel conversion of the bound fields, the     *)
(* parts catalog's lazy initialization, the generator runs of the three    *)
(* JSON scripts, the resolution of footnote references, the repeated       *)
(* resolution of one part list and the splitting of display names.         *)
(***************************************************************************)
EXTENDS Integers, Sequences, FiniteSets, TLC

VARIABLES
  cat,            \* the part catalog: part identifier -> declared child list
  rpc,            \* which resolver operation has run ("idle" before any)
  explicit,       \* the explicit part list handed to the operation
  resolved,       \* what the operation returned: [err, parts]
  detailed_parts, \* the record's detailed_parts entries: [count, part]
  tools_required, \* the record's tools_required entries: [count, part]
  FLAG_CONFIGS,   \* a brand's rule table: a list of FlagConfig
  fpc,            \* the flag engine: "idle", then what the call did
  platform_flags, \* the capability flags of the platform asked about
  flag_footnotes, \* the derived mapping, an insertion-ordered dict
  brand,          \* the brand of the processor that was constructed
  model_data,     \* BaseProcessor.model_data: model id -> ModelData
  parts_data,     \* BaseProcessor.parts_data: model id -> CarParts
  footnotes,      \* BaseProcessor.footnotes: model id -> FootnoteCollection
  returned,       \* the last process_model call: [id, value]
  xpc,            \* the extractor: "idle", then "extracted"
  car_doc,        \* the vehicle handed to the extractor
  car_data,       \* the record the extractor built for it
  CP,             \* the CarParams handed to the extractor
  center_to_front_ratio, \* the ratio it emitted: [ratio, divided_by_zero]
  initialized,    \* PartsCatalog._initialized
  harnesses,      \* PartsCatalog._harnesses: the construction it came from
  kits,           \* PartsCatalog._kits: the construction it came from
  builds,         \* how many times the tables were constructed
  worker,         \* each worker: [pc, op, build, got, calls]
  gpc,            \* the generator run: "idle", then which variant ran
  all_cars,       \* the car docs the run was given
  cars_data,      \* the records the run collected (sorted once it sorted)
  output_file,    \* the output file: [written, data]
  stats,          \* ScriptStats: total_cars, processed_cars, errors, warnings
  exit_status,    \* how the process ended
  npc,            \* the footnote lookup: "idle", then which site ran
  explicit_footnotes, \* the footnote references of the entry
  emitted_footnotes,  \* the footnotes the site emitted, in order
  footnotes_raised,   \* the exception that left the site, or "None"
  hash_order,     \* the running interpreter's set iteration order of the parts
  outputs,        \* the resolutions made so far: [op, list, out]
  full_name,      \* the display name handed to split_name, as its characters
  split_out       \* what split_name did with it: [raised, make, model, years]

resolveVars == <<cat, rpc, explicit, resolved, detailed_parts, tools_required>>
flagVars == <<FLAG_CONFIGS, fpc, platform_flags, flag_footnotes>>
procVars == <<brand, model_data, parts_data, footnotes, returned>>
extractVars == <<xpc, car_doc, car_data, CP, center_to_front_ratio>>

catalogVars == <<initialized, harnesses, kits, builds, worker>>
runVars == <<gpc, all_cars, cars_data, output_file, stats, exit_status>>
noteVars == <<npc, explicit_footnotes, emitted_footnotes, footnotes_raised>>
twiceVars == <<hash_order, outputs>>
nameVars == <<full_name, split_out>>
restVars == <<catalogVars, runVars, noteVars, twiceVars, nameVars>>

vars == <<resolveVars, flagVars, procVars, extractVars, restVars>>

\* What an action of one component leaves alone.
notResolveVars == <<flagVars, procVars, extractVars, restVars>>
notFlagVars == <<resolveVars, procVars, extractVars, restVars>>
notProcVars == <<resolveVars, flagVars, extractVars, restVars>>
notExtractVars == <<resolveVars, flagVars, procVars, restVars>>
notCatalogVars == <<resolveVars, flagVars, procVars, extractVars, runVars, noteVars, twiceVars, nameVars>>
notRunVars == <<resolveVars, flagVars, procVars, extractVars, catalogVars, noteVars, twiceVars, nameVars>>
notNoteVars == <<resolveVars, flagVars, procVars, extractVars, catalogVars, runVars, twiceVars, nameVars>>
notNameVars == <<resolveVars, flagVars, procVars, extractVars, catalogVars, runVars, noteVars, twiceVars>>
notTwiceVars == <<resolveVars, flagVars, procVars, extractVars, catalogVars, runVars, noteVars, nameVars>>

(***************************************************************************)
(* Bounds of the model.                                                    *)
(***************************************************************************)
MaxEdges == 3        \* declared child references in the whole catalog
MaxExplicit == 2     \* length of an explicit part list
RecursionLimit == 5  \* nested all_parts() frames the interpreter allows
MaxRules == 3        \* FlagConfig entries in a rule table
MaxCalls == 3        \* catalog calls one worker makes
MaxCars == 2         \* car docs in one generator run

(***************************************************************************)
(* The catalog: part identifiers, the Tool enum class, display names.      *)
(***************************************************************************)
Parts == {"D1", "M1", "M2", "T1"}

\* isinstance(part, Tool): membership of the Tool enum class.
IsTool(p) == p = "T1"

\* str(part.value.name) as a sort key: the rank of the display name in
\* case-sensitive string order ("Angled Mount" < "Pry Tool" < "Regular Mount"
\* < "comma 3X").
display_name(p) ==
  CASE p = "M2" -> 1
    [] p = "T1" -> 2
    [] p = "M1" -> 3
    [] p = "D1" -> 4

SeqToSet(s) == {s[i] : i \in 1..Len(s)}

EdgeCount(c) == LET RECURSIVE sum(_)
                    sum(S) == IF S = {} THEN 0
                              ELSE LET p == CHOOSE x \in S : TRUE
                                   IN Len(c[p]) + sum(S \ {p})
                IN sum(Parts)

\* Sequences over S of length at most n.
SeqsUpTo(S, n) == UNION {[1..k -> S] : k \in 0..n}

Ok(ps) == [err |-> "none", parts |-> ps]
RecursionError == [err |-> "RecursionError", parts |-> <<>>]

\* A plausible slip: each child is followed at once by its own expansion
\* (depth-first pre-order) instead of all the children coming first.
RECURSIVE all_parts_depth_first(_, _, _)
all_parts_depth_first(c, p, depth) ==
  IF depth > RecursionLimit THEN RecursionError
  ELSE LET kids == c[p]
           RECURSIVE extend(_, _)
           extend(i, acc) ==
             IF i > Len(kids) THEN Ok(acc)
             ELSE LET r == all_parts_depth_first(c, kids[i], depth + 1)
                  IN IF r.err # "none" THEN r
                     ELSE extend(i + 1, Append(acc, kids[i]) \o r.parts)
       IN extend(1, <<>>)

(***************************************************************************)
(* BasePart.all_parts(): the declared children, then the all_parts() of    *)
(* each child in turn.  There is no visited set: on a cyclic catalog the   *)
(* recursion only ends when the interpreter's frame limit raises           *)
(* RecursionError.                                                         *)
(***************************************************************************)
RECURSIVE all_parts(_, _, _)
all_parts(c, p, depth) ==
  IF depth > RecursionLimit THEN RecursionError
  ELSE LET kids == c[p]
           RECURSIVE extend(_, _)
           extend(i, acc) ==
             IF i > Len(kids) THEN Ok(acc)
             ELSE LET r == all_parts(c, kids[i], depth + 1)
                  IN IF r.err # "none" THEN r ELSE extend(i + 1, acc \o r.parts)
       IN extend(1, kids)

\* The dependency loop of get_all_parts_for_model: append every dependency
\* that is not yet in processed_parts.
RECURSIVE add_deps(_, _, _, _)
add_deps(deps, i, out, processed_parts) ==
  IF i > Len(deps) THEN [parts |-> out, processed |-> processed_parts]
  ELSE IF deps[i] \in processed_parts
       THEN add_deps(deps, i + 1, out, processed_parts)
       ELSE add_deps(deps, i + 1, Append(out, deps[i]), processed_parts \cup {deps[i]})

\* A plausible slip: the dependency loop forgets the processed_parts check.
RECURSIVE add_deps_unchecked(_, _, _, _)
add_deps_unchecked(deps, i, out, processed_parts) ==
  IF i > Len(deps) THEN [parts |-> out, processed |-> processed_parts]
  ELSE add_deps_unchecked(deps, i + 1, Append(out, deps[i]), processed_parts \cup {deps[i]})

(***************************************************************************)
(* get_all_parts_for_model of base/model_helpers.py.                       *)
(***************************************************************************)
RECURSIVE helpers_loop(_, _, _, _, _)
helpers_loop(c, expl, i, out, processed_parts) ==
  IF i > Len(expl) THEN Ok(out)
  ELSE IF expl[i] \in processed_parts
       THEN helpers_loop(c, expl, i + 1, out, processed_parts)
       ELSE LET deps == all_parts(c, expl[i], 1)
            IN IF deps.err # "none" THEN deps
               ELSE LET r == add_deps(deps.parts, 1, Append(out, expl[i]),
                                      processed_parts \cup {expl[i]})
                    IN helpers_loop(c, expl, i + 1, r.parts, r.processed)

RECURSIVE helpers_loop_unchecked(_, _, _, _, _)
helpers_loop_unchecked(c, expl, i, out, processed_parts) ==
  IF i > Len(expl) THEN Ok(out)
  ELSE IF expl[i] \in processed_parts
       THEN helpers_loop_unchecked(c, expl, i + 1, out, processed_parts)
       ELSE LET deps == all_parts(c, expl[i], 1)
            IN IF deps.err # "none" THEN deps
               ELSE LET r == add_deps_unchecked(deps.parts, 1, Append(out, expl[i]),
                                                processed_parts \cup {expl[i]})
                    IN helpers_loop_unchecked(c, expl, i + 1, r.parts, r.processed)

get_all_parts_for_model_unchecked(c, expl) == helpers_loop_unchecked(c, expl, 1, <<>>, {})

get_all_parts_for_model(c, expl) == helpers_loop(c, expl, 1, <<>>, {})

(***************************************************************************)
(* get_all_parts_for_model of brand_metadata/hyundai/attributes.py: the    *)
(* dependencies are PART_DEPENDENCIES.get(part_enum, []), one level only.  *)
(***************************************************************************)
RECURSIVE hyundai_loop(_, _, _, _, _)
hyundai_loop(c, expl, i, out, processed_parts) ==
  IF i > Len(expl) THEN Ok(out)
  ELSE IF expl[i] \in processed_parts
       THEN hyundai_loop(c, expl, i + 1, out, processed_parts)
       ELSE LET r == add_deps(c[expl[i]], 1, Append(out, expl[i]),
                              processed_parts \cup {expl[i]})
            IN hyundai_loop(c, expl, i + 1, r.parts, r.processed)

hyundai_get_all_parts_for_model(c, expl) == hyundai_loop(c, expl, 1, <<>>, {})

(***************************************************************************)
(* CarParts.all_parts() of the documentation objects: the explicit parts,  *)
(* then the all_parts() of each explicit part.  This is the flat list the  *)
(* extractors count in, before any deduplication.                          *)
(***************************************************************************)
RECURSIVE car_parts_expand(_, _, _, _)
car_parts_expand(c, expl, i, acc) ==
  IF i > Len(expl) THEN Ok(acc)
  ELSE LET r == all_parts(c, expl[i], 1)
       IN IF r.err # "none" THEN r ELSE car_parts_expand(c, expl, i + 1, acc \o r.parts)

car_parts_all_parts(c, expl) == car_parts_expand(c, expl, 1, expl)

\* list.count(x)
RECURSIVE Count(_, _)
Count(s, x) == IF s = <<>> THEN 0
               ELSE (IF Head(s) = x THEN 1 ELSE 0) + Count(Tail(s), x)

\* The orders sorted(set(items), key=display name) can produce: the set's
\* iteration order is arbitrary and the sort is stable, so parts with equal
\* keys may come out in either order.
sorted_by_name(S) ==
  {s \in [1..Cardinality(S) -> S] :
     /\ \A i, j \in 1..Cardinality(S) : i # j => s[i] # s[j]
     /\ \A i, j \in 1..Cardinality(S) : i < j => display_name(s[i]) <= display_name(s[j])}

\* The alternative counting strategy: count after deduplication.
format_counted_after_dedup(items) ==
  {[i \in 1..Len(order) |-> [count |-> 1, part |-> order[i]]] :
     order \in sorted_by_name(SeqToSet(items))}

\* MetadataExtractor._format_detailed_parts / _format_tools_required.
format_detailed_parts(items) ==
  {[i \in 1..Len(order) |-> [count |-> Count(items, order[i]), part |-> order[i]]] :
     order \in sorted_by_name(SeqToSet(items))}

\* The keys of item_counts in insertion order: first occurrences.
RECURSIVE first_occurrences(_, _)
first_occurrences(s, seen) ==
  IF s = <<>> THEN <<>>
  ELSE IF Head(s) \in seen THEN first_occurrences(Tail(s), seen)
       ELSE <<Head(s)>> \o first_occurrences(Tail(s), seen \cup {Head(s)})

\* sorted(seq, key=display name): a stable insertion sort.
RECURSIVE stable_insert(_, _)
stable_insert(s, x) ==
  IF s = <<>> THEN <<x>>
  ELSE IF display_name(x) < display_name(Head(s)) THEN <<x>> \o s
       ELSE <<Head(s)>> \o stable_insert(Tail(s), x)

RECURSIVE stable_sort(_, _)
stable_sort(s, acc) ==
  IF s = <<>> THEN acc ELSE stable_sort(Tail(s), stable_insert(acc, Head(s)))

\* format_items_to_dicts of get_metadata.py.
format_items_to_dicts(items) ==
  LET order == stable_sort(first_occurrences(items, {}), <<>>)
  IN [i \in 1..Len(order) |-> [count |-> Count(items, order[i]), part |-> order[i]]]

NotTool(p) == ~IsTool(p)

(***************************************************************************)
(* The state machine of the resolvers.                                     *)
(***************************************************************************)
NoEntries == <<>>

\* The resolver's variables while another component is exercised.
ResolveOff ==
  /\ cat = [p \in Parts |-> <<>>]
  /\ rpc = "off"
  /\ explicit = <<>>
  /\ resolved = Ok(<<>>)
  /\ detailed_parts = NoEntries
  /\ tools_required = NoEntries

\* The flag engine's variables while another component is exercised.
FlagsOff ==
  /\ FLAG_CONFIGS = <<>>
  /\ fpc = "off"
  /\ platform_flags = {}
  /\ flag_footnotes = <<>>

NoReturn == [id |-> "", value |-> "unset"]
EmptyDict == <<>>

ProcOff ==
  /\ brand = "off"
  /\ model_data = EmptyDict
  /\ parts_data = EmptyDict
  /\ footnotes = EmptyDict
  /\ returned = NoReturn

NoCar == [name |-> "", min_steer_speed |-> "None", max_lateral_accel |-> "None"]

\* CarParams: None (present = FALSE) or an object that may lack either
\* attribute.  Lengths are in tenths of a metre.
NoCP == [present |-> FALSE, has_wheelbase |-> FALSE, wheelbase |-> 0,
         has_centerToFront |-> FALSE, centerToFront |-> 0]

\* A ratio is a fraction [n, d]; 0.5 is one half.
Half == [n |-> 1, d |-> 2]
DefaultRatio == [ratio |-> Half, divided_by_zero |-> FALSE]

ExtractOff ==
  /\ xpc = "off"
  /\ car_doc = NoCar
  /\ car_data = NoCar
  /\ CP = NoCP
  /\ center_to_front_ratio = DefaultRatio

Workers == {"w1", "w2"}

\* No descriptor: a table that is still the empty dict of the class body,
\* or a lookup that was not made yet.
NoBuild == 0

IdleWorker ==
  [pc |-> "idle", op |-> "none", build |-> NoBuild,
   got |-> [get_harness |-> NoBuild, get_kit |-> NoBuild], calls |-> <<>>]

CatalogOff ==
  /\ initialized = FALSE
  /\ harnesses = NoBuild
  /\ kits = NoBuild
  /\ builds = 0
  /\ worker = [w \in {} |-> IdleWorker]

None == "None"
NoFile == [written |-> FALSE, data |-> <<>>]
ZeroStats == [total_cars |-> 0, processed_cars |-> 0, errors |-> 0, warnings |-> 0]

RunOff ==
  /\ gpc = "off"
  /\ all_cars = <<>>
  /\ cars_data = <<>>
  /\ output_file = NoFile
  /\ stats = ZeroStats
  /\ exit_status = "running"

\* The components that are not exercised.
\* No footnote lookup has been made.
NotesOff ==
  /\ npc = "off"
  /\ explicit_footnotes = <<>>
  /\ emitted_footnotes = <<>>
  /\ footnotes_raised = None

\* No interpreter was started to resolve a list again.
TwiceOff ==
  /\ hash_order = <<>>
  /\ outputs = <<>>

\* split_name has not been called, and was given no name.
NotCalled == [raised |-> "NotCalled", make |-> <<>>, model |-> <<>>, years |-> <<>>]

NameOff ==
  /\ full_name = <<>>
  /\ split_out = NotCalled

RestOff == CatalogOff /\ RunOff /\ NotesOff /\ TwiceOff /\ NameOff

InitResolve ==
  /\ cat = [p \in Parts |-> <<>>]
  /\ rpc = "idle"
  /\ explicit = <<>>
  /\ resolved = Ok(<<>>)
  /\ detailed_parts = NoEntries
  /\ tools_required = NoEntries
  /\ FlagsOff
  /\ ProcOff
  /\ ExtractOff
  /\ RestOff

\* One more child reference is declared: BasePart(..., parts=[...]) or an
\* entry of PART_DEPENDENCIES.
DeclareChild ==
  /\ rpc = "idle"
  /\ EdgeCount(cat) < MaxEdges
  /\ \E p \in Parts, ch \in Parts :
       /\ ch \notin SeqToSet(cat[p])
       /\ cat' = [cat EXCEPT ![p] = Append(@, ch)]
  /\ UNCHANGED <<rpc, explicit, resolved, detailed_parts, tools_required, notResolveVars>>

ResolveHelpers ==
  /\ rpc = "idle"
  /\ \E expl \in SeqsUpTo(Parts, MaxExplicit) :
       /\ explicit' = expl
       /\ resolved' = get_all_parts_for_model(cat, expl)
  /\ rpc' = "model_helpers"
  /\ UNCHANGED <<cat, detailed_parts, tools_required, notResolveVars>>

ResolveHyundai ==
  /\ rpc = "idle"
  /\ \E expl \in SeqsUpTo(Parts, MaxExplicit) :
       /\ explicit' = expl
       /\ resolved' = hyundai_get_all_parts_for_model(cat, expl)
  /\ rpc' = "hyundai"
  /\ UNCHANGED <<cat, detailed_parts, tools_required, notResolveVars>>

\* MetadataExtractor._extract_parts_info inside extract_car_data: resolved
\* keeps the flat list; an exception of all_parts() is caught by
\* extract_car_data, which drops the record.
ExtractPartsInfo ==
  /\ rpc = "idle"
  /\ \E expl \in SeqsUpTo(Parts, MaxExplicit) :
       /\ explicit' = expl
       /\ IF expl = <<>>
          THEN /\ resolved' = Ok(<<>>)
               /\ detailed_parts' = NoEntries
               /\ tools_required' = NoEntries
          ELSE LET flat == car_parts_all_parts(cat, expl)
               IN /\ resolved' = flat
                  /\ IF flat.err # "none"
                     THEN /\ detailed_parts' = NoEntries
                          /\ tools_required' = NoEntries
                     ELSE /\ detailed_parts' \in
                               format_detailed_parts(SelectSeq(flat.parts, NotTool))
                          /\ tools_required' \in
                               format_detailed_parts(SelectSeq(flat.parts, IsTool))
  /\ rpc' = "extract"
  /\ UNCHANGED <<cat, notResolveVars>>

\* format_items_to_dicts of get_metadata.py, applied to the non-tool and the
\* tool half of a flat list.
FormatItemsToDicts ==
  /\ rpc = "idle"
  /\ \E expl \in SeqsUpTo(Parts, MaxExplicit) :
       LET flat == car_parts_all_parts(cat, expl)
       IN /\ flat.err = "none"
          /\ explicit' = expl
          /\ resolved' = flat
          /\ detailed_parts' = format_items_to_dicts(SelectSeq(flat.parts, NotTool))
          /\ tools_required' = format_items_to_dicts(SelectSeq(flat.parts, IsTool))
  /\ rpc' = "format_items"
  /\ UNCHANGED <<cat, notResolveVars>>

\* The parts section of extract_metadata of get_metadata.py: the name Tool
\* is never imported, so the first isinstance(p, Tool) raises NameError,
\* which the section's except Exception swallows: parts_list and tools_list
\* stay [].  An exception of all_parts() is swallowed the same way.
ExtractMetadataParts ==
  /\ rpc = "idle"
  /\ \E expl \in SeqsUpTo(Parts, MaxExplicit) :
       /\ explicit' = expl
       /\ resolved' = car_parts_all_parts(cat, expl)
       /\ detailed_parts' = format_items_to_dicts(<<>>)
       /\ tools_required' = format_items_to_dicts(<<>>)
  /\ rpc' = "extract_metadata"
  /\ UNCHANGED <<cat, notResolveVars>>

\* The parts section of car_docs_to_dict of scripts/create_cars_json.py:
\* the same split and counting as _extract_parts_info, outside any try.
CarDocsToDictParts ==
  /\ rpc = "idle"
  /\ \E expl \in SeqsUpTo(Parts, MaxExplicit) :
       /\ explicit' = expl
       /\ IF expl = <<>>
          THEN /\ resolved' = Ok(<<>>)
               /\ detailed_parts' = NoEntries
               /\ tools_required' = NoEntries
          ELSE LET flat == car_parts_all_parts(cat, expl)
               IN /\ resolved' = flat
                  /\ IF flat.err # "none"
                     THEN /\ detailed_parts' = NoEntries
                          /\ tools_required' = NoEntries
                     ELSE /\ detailed_parts' \in
                               format_detailed_parts(SelectSeq(flat.parts, NotTool))
                          /\ tools_required' \in
                               format_detailed_parts(SelectSeq(flat.parts, IsTool))
  /\ rpc' = "car_docs_to_dict"
  /\ UNCHANGED <<cat, notResolveVars>>

NextResolve ==
  \/ DeclareChild
  \/ ResolveHelpers
  \/ ResolveHyundai
  \/ ExtractPartsInfo
  \/ FormatItemsToDicts

SpecResolve == InitResolve /\ [][NextResolve]_vars

\* The parts sections of the three extractors over a declared catalog.
NextParts ==
  \/ DeclareChild
  \/ ExtractPartsInfo
  \/ ExtractMetadataParts
  \/ CarDocsToDictParts

SpecParts == InitResolve /\ [][NextParts]_vars

(***************************************************************************)
(* Graph notions the claims are stated in.                                 *)
(***************************************************************************)
Children(c, p) == SeqToSet(c[p])

\* Everything reachable from p by one or more child references.
RECURSIVE Reach(_, _)
Reach(c, S) ==
  LET T == S \cup UNION {Children(c, q) : q \in S}
  IN IF T = S THEN S ELSE Reach(c, T)

Descendants(c, p) == Reach(c, Children(c, p))

Acyclic(c) == \A p \in Parts : p \notin Descendants(c, p)

\* A cycle can be reached from part p.
CycleFrom(c, p) == \E q \in {p} \cup Descendants(c, p) : q \in Descendants(c, q)

NoDuplicates(s) == \A i, j \in 1..Len(s) : i # j => s[i] # s[j]

ResolverRan == rpc \in {"model_helpers", "hyundai"}

(***************************************************************************)
(* C1: the list a composition resolver returns never holds the same part   *)
(* identifier twice, whatever the explicit list repeats or shares.         *)
(***************************************************************************)
C1_NoDuplicateParts ==
  (ResolverRan /\ resolved.err = "none") => NoDuplicates(resolved.parts)

\* Two distinct explicit parts that share a child were resolved.
C1_Witness ==
  /\ rpc = "model_helpers"
  /\ resolved.err = "none"
  /\ Len(explicit) = 2
  /\ explicit[1] # explicit[2]
  /\ Children(cat, explicit[1]) \cap Children(cat, explicit[2]) # {}

(***************************************************************************)
(* C2: on an acyclic catalog the resolver's result contains every explicit *)
(* part p, every declared child of p and every transitive descendant of p. *)
(* (Stated for both resolvers; the Hyundai one violates it.)               *)
(***************************************************************************)
C2_ClosureComplete ==
  (ResolverRan /\ Acyclic(cat) /\ resolved.err = "none") =>
     \A i \in 1..Len(explicit) :
        ({explicit[i]} \cup Descendants(cat, explicit[i])) \subseteq SeqToSet(resolved.parts)

(***************************************************************************)
(* C3: every entry of detailed_parts and tools_required carries the number *)
(* of occurrences of its part in the flat pre-deduplication list, so the   *)
(* counts sum to the length of that list; explicit [D1] with D1 -> [M1]    *)
(* gives D1 once, M1 once and no tools.                                    *)
(***************************************************************************)
Occurrences(s, x) == Cardinality({i \in 1..Len(s) : s[i] = x})

RECURSIVE SumCounts(_)
SumCounts(entries) ==
  IF entries = <<>> THEN 0 ELSE Head(entries).count + SumCounts(Tail(entries))

OnlyD1ToM1 == cat = [p \in Parts |-> IF p = "D1" THEN <<"M1">> ELSE <<>>]

RECURSIVE dfs_visit(_, _, _)
RECURSIVE dfs_list(_, _, _)
dfs_visit(c, p, st) ==
  IF p \in st.seen THEN st
  ELSE dfs_list(c, c[p], [out |-> Append(st.out, p), seen |-> st.seen \cup {p}])
dfs_list(c, ps, st) ==
  IF ps = <<>> THEN st ELSE dfs_list(c, Tail(ps), dfs_visit(c, Head(ps), st))

DepthFirstPreorder(c, expl) == dfs_list(c, expl, [out |-> <<>>, seen |-> {}]).out

C4_DepthFirstPreorder ==
  (rpc = "model_helpers" /\ resolved.err = "none") =>
     resolved.parts = DepthFirstPreorder(cat, explicit)

(***************************************************************************)
(* C4 as amended: the output lists the explicit parts in list order, each  *)
(* newly visited one immediately followed by its not-yet-visited           *)
(* descendants in the order: all its declared children first, then the     *)
(* expansion of each child in turn.  A child's descendants come after the  *)
(* child's siblings.                                                       *)
(***************************************************************************)
RECURSIVE ChildrenThenExpansions(_, _)
RECURSIVE ExpansionsOf(_, _)
ChildrenThenExpansions(c, p) == c[p] \o ExpansionsOf(c, c[p])
ExpansionsOf(c, ps) ==
  IF ps = <<>> THEN <<>>
  ELSE ChildrenThenExpansions(c, Head(ps)) \o ExpansionsOf(c, Tail(ps))

RECURSIVE ExpectedFlat(_, _)
ExpectedFlat(c, expl) ==
  IF expl = <<>> THEN <<>>
  ELSE <<Head(expl)>> \o ChildrenThenExpansions(c, Head(expl)) \o ExpectedFlat(c, Tail(expl))

C4_ChildrenBeforeGrandchildren ==
  (rpc = "model_helpers" /\ Acyclic(cat)) =>
     /\ resolved.err = "none"
     /\ resolved.parts = first_occurrences(ExpectedFlat(cat, explicit), {})

\* A part with two children, the first of which has a child of its own.
C4_Witness ==
  /\ rpc = "model_helpers"
  /\ Acyclic(cat)
  /\ explicit = <<"D1">>
  /\ cat["D1"] = <<"M1", "M2">>
  /\ cat["M1"] = <<"T1">>
  /\ resolved.parts = <<"D1", "M1", "M2", "T1">>

(***************************************************************************)
(* C5: when a cycle of the child graph is reachable from an explicit part, *)
(* resolution ends with a fatal configuration error.                       *)
(***************************************************************************)
C5_CycleIsConfigurationError ==
  (ResolverRan /\ \E i \in 1..Len(explicit) : CycleFrom(cat, explicit[i])) =>
     resolved.err = "ConfigurationError"

(***************************************************************************)
(* The flag rule engine: FlagBasedProcessor of base/flag_processor.py.     *)
(***************************************************************************)
FlagNames == {"MIN_STEER_32_MPH", "MANDO_RADAR", "CANFD"}
FootnoteKeys == {"min_speed", "radar_scc", "canfd"}

\* A Python dict: a sequence of [k, v] in insertion order.  Assigning to a
\* key that is present replaces its value and keeps its place.
dict_keys(d) == {d[i].k : i \in 1..Len(d)}
dict_get(d, key) == d[CHOOSE i \in 1..Len(d) : d[i].k = key].v
dict_set(d, key, val) ==
  IF key \in dict_keys(d)
  THEN [i \in 1..Len(d) |-> IF d[i].k = key THEN [k |-> key, v |-> val] ELSE d[i]]
  ELSE Append(d, [k |-> key, v |-> val])

\* _initialize_flag_configs: self.flag_configs[flag_value] = config, for
\* each config of FLAG_CONFIGS in turn.
RECURSIVE initialize_flag_configs(_, _, _)
initialize_flag_configs(configs, i, flag_configs) ==
  IF i > Len(configs) THEN flag_configs
  ELSE initialize_flag_configs(configs, i + 1,
                               dict_set(flag_configs, configs[i].flag_name, configs[i]))

\* _get_model_footnotes: for flag_value, config in self.flag_configs.items():
\* if platform_config.flags & flag_value: footnotes[config.footnote_key] = ...
RECURSIVE get_model_footnotes(_, _, _, _)
get_model_footnotes(flag_configs, flags, i, fns) ==
  IF i > Len(flag_configs) THEN fns
  ELSE get_model_footnotes(flag_configs, flags, i + 1,
         IF flag_configs[i].k \in flags
         THEN dict_set(fns, flag_configs[i].v.footnote_key, flag_configs[i].v.footnote_text)
         ELSE fns)

InitFlags ==
  /\ FLAG_CONFIGS = <<>>
  /\ fpc = "idle"
  /\ platform_flags = {}
  /\ flag_footnotes = <<>>
  /\ ResolveOff
  /\ ProcOff
  /\ ExtractOff
  /\ RestOff

\* One more FlagConfig is declared in the brand's FLAG_CONFIGS.  Each rule's
\* footnote_text is its own: it is named by the rule's place in the table.
DeclareRule ==
  /\ fpc = "idle"
  /\ Len(FLAG_CONFIGS) < MaxRules
  /\ \E f \in FlagNames, key \in FootnoteKeys :
       FLAG_CONFIGS' = Append(FLAG_CONFIGS,
                              [flag_name |-> f, footnote_key |-> key,
                               footnote_text |-> Len(FLAG_CONFIGS) + 1])
  /\ UNCHANGED <<fpc, platform_flags, flag_footnotes, notFlagVars>>

\* __init__ of a processor whose FLAG_CONFIGS is empty raises ValueError.
ConstructWithoutRules ==
  /\ fpc = "idle"
  /\ FLAG_CONFIGS = <<>>
  /\ fpc' = "ValueError"
  /\ UNCHANGED <<FLAG_CONFIGS, platform_flags, flag_footnotes, notFlagVars>>

\* __init__ and then _get_model_footnotes for a platform with some flags.
\* The call returns None when no footnote was derived.
GetModelFootnotes ==
  /\ fpc = "idle"
  /\ FLAG_CONFIGS # <<>>
  /\ \E flags \in SUBSET FlagNames :
       LET fns == get_model_footnotes(initialize_flag_configs(FLAG_CONFIGS, 1, <<>>),
                                      flags, 1, <<>>)
       IN /\ platform_flags' = flags
          /\ flag_footnotes' = fns
          /\ fpc' = IF fns = <<>> THEN "none" ELSE "collection"
  /\ UNCHANGED <<FLAG_CONFIGS, notFlagVars>>

NextFlags == DeclareRule \/ ConstructWithoutRules \/ GetModelFootnotes

SpecFlags == InitFlags /\ [][NextFlags]_vars

FlagsDerived == fpc \in {"none", "collection"}

\* The places in the table of the rules whose flag bit is set and that write
\* footnote id key.
SetRulesFor(key) ==
  {i \in 1..Len(FLAG_CONFIGS) :
     /\ FLAG_CONFIGS[i].footnote_key = key
     /\ FLAG_CONFIGS[i].flag_name \in platform_flags}

(***************************************************************************)
(* C6: the flag-derived mapping contains the footnote id of every rule     *)
(* whose flag bit is set, and no footnote id whose rules all have their    *)
(* bit clear.                                                              *)
(***************************************************************************)
C6_FootnotesOfSetFlags ==
  FlagsDerived =>
     \A key \in FootnoteKeys : (key \in dict_keys(flag_footnotes)) <=> (SetRulesFor(key) # {})

(***************************************************************************)
(* C8: when several rules whose bit is set write the same footnote id, the *)
(* mapping holds one entry for it, with the text of the rule declared last *)
(* among them.                                                             *)
(***************************************************************************)
Max(S) == CHOOSE x \in S : \A y \in S : y <= x

C8_LaterRuleWins ==
  FlagsDerived =>
     \A key \in FootnoteKeys :
        Cardinality(SetRulesFor(key)) >= 2 =>
           /\ Cardinality({i \in 1..Len(flag_footnotes) : flag_footnotes[i].k = key}) = 1
           /\ dict_get(flag_footnotes, key) = FLAG_CONFIGS[Max(SetRulesFor(key))].footnote_text

(***************************************************************************)
(* The brand processors: HyundaiProcessor and SubaruProcessor over the     *)
(* three dicts of BaseProcessor.  A dict whose order does not matter is a  *)
(* function whose domain is its key set.                                   *)
(***************************************************************************)
ModelIds == {"id1", "id2"}

\* A plausible slip: the dict is rebuilt with the one entry.
put_alone(d, key, val) == [x \in {key} |-> val]

\* d[key] = val
put(d, key, val) == [x \in DOMAIN d \cup {key} |-> IF x = key THEN val ELSE d[x]]

\* str.lower() of the model names the models below carry.
lower(name) ==
  CASE name = "Elantra" -> "elantra"
    [] name = "Sonata" -> "sonata"
    [] name = "Ioniq 5" -> "ioniq 5"
    [] name = "Comma Body" -> "comma body"
    [] name = "Acme Car" -> "acme car"
    [] OTHER -> name

\* ModelData of a Hyundai model: its name, years[0], and the flags its
\* platform has in CAR.
HyundaiModels ==
  [model : {"Elantra", "Sonata", "Ioniq 5"},
   year : {2018, 2019, 2020, 2021},
   flags : SUBSET {"CANFD", "MIN_STEER_32_MPH"},
   platform : {"HYUNDAI"},
   exp_long : {"absent"}]

\* ModelData of a Subaru model: its platform, and the flags and the
\* experimentalLongitudinalAvailable attribute its platform has in CAR.
SubaruModels ==
  [model : {"Subaru"},
   year : {2020},
   flags : SUBSET {"LKAS_ANGLE", "STEER_RATE_LIMITED"},
   platform : {"SUBARU_OUTBACK_2023", "SUBARU_FORESTER_2022", "SUBARU_OUTBACK", "SUBARU_IMPREZA"},
   exp_long : {"absent", "False", "True"}]

NoParts == [some |-> FALSE, parts |-> <<>>, tools |-> <<>>]
CarParts(ps, ts) == [some |-> TRUE, parts |-> ps, tools |-> ts]

\* HyundaiProcessor.common_footnotes and SubaruProcessor.common_footnotes.
hyundai_common_footnotes ==
  [scc |-> "Requires Smart Cruise Control (SCC)",
   min_speed |-> "Minimum engage speed applies",
   radar_scc |-> "Uses radar-based Smart Cruise Control"]

subaru_common_footnotes ==
  [eyesight |-> "Requires EyeSight with Lane Keep Assist",
   angle_lkas |-> "Uses angle-based Lane Keep Assist System",
   torque_lkas |-> "Uses torque-based Lane Keep Assist System",
   steer_rate |-> "Vehicle may temporarily fault when steering angle rate exceeds threshold",
   global |-> "SubaruFootnote.GLOBAL",
   exp_long |-> "SubaruFootnote.EXP_LONG"]

\* HyundaiProcessor._get_parts: the harness by model name and first year;
\* None for every model that is neither an Elantra nor a Sonata from 2020.
\* The platform's flags and FlagConfig.part_required are not read.
hyundai_get_parts(md) ==
  LET model == lower(md.model)
      year == md.year
      tools == <<"pry_tool">>
  IN IF model = "elantra"
     THEN IF year >= 2021 THEN CarParts(<<"harness_k">>, tools)
          ELSE IF year = 2019 THEN CarParts(<<"harness_g">>, tools)
          ELSE IF year <= 2018 THEN CarParts(<<"harness_b">>, tools)
          ELSE CarParts(<<>>, tools)
     ELSE IF model = "sonata" /\ year >= 2020 THEN CarParts(<<"harness_a">>, tools)
     ELSE NoParts

\* A plausible slip: the radar footnote is written under the key 'scc'.
hyundai_get_footnotes_radar_over_scc(md) ==
  LET model == lower(md.model)
      year == md.year
      f1 == dict_set(<<>>, "scc", hyundai_common_footnotes.scc)
      f2 == IF model = "elantra" /\ year <= 2019
            THEN dict_set(f1, "min_speed", hyundai_common_footnotes.min_speed) ELSE f1
  IN IF model = "sonata" /\ year >= 2020
     THEN dict_set(f2, "scc", hyundai_common_footnotes.radar_scc) ELSE f2

\* HyundaiProcessor._get_footnotes.
hyundai_get_footnotes(md) ==
  LET model == lower(md.model)
      year == md.year
      f1 == dict_set(<<>>, "scc", hyundai_common_footnotes.scc)
      f2 == IF model = "elantra" /\ year <= 2019
            THEN dict_set(f1, "min_speed", hyundai_common_footnotes.min_speed) ELSE f1
  IN IF model = "sonata" /\ year >= 2020
     THEN dict_set(f2, "radar_scc", hyundai_common_footnotes.radar_scc) ELSE f2

\* SubaruProcessor._get_model_parts.
subaru_get_model_parts(md) ==
  LET harness ==
        IF md.platform \in {"SUBARU_OUTBACK_2023", "SUBARU_ASCENT_2023"} THEN "harness_d"
        ELSE IF md.platform = "SUBARU_FORESTER_2022" THEN "harness_c"
        ELSE IF md.platform \in {"SUBARU_OUTBACK", "SUBARU_LEGACY"}
                \/ md.platform = "SUBARU_CROSSTREK_HYBRID" THEN "harness_b"
        ELSE "harness_a"
  IN CarParts(<<harness>>, <<"socket_8mm_deep", "trim_removal_tool">>)

\* SubaruProcessor._get_model_footnotes.
subaru_get_model_footnotes(md) ==
  LET f1 == dict_set(<<>>, "eyesight", subaru_common_footnotes.eyesight)
      f2 == dict_set(f1, "global", subaru_common_footnotes.global)
      f3 == IF "LKAS_ANGLE" \in md.flags
            THEN dict_set(f2, "lkas", subaru_common_footnotes.angle_lkas)
            ELSE dict_set(f2, "lkas", subaru_common_footnotes.torque_lkas)
      f4 == IF "STEER_RATE_LIMITED" \in md.flags
            THEN dict_set(f3, "steer_rate", subaru_common_footnotes.steer_rate) ELSE f3
  IN IF md.exp_long = "True"
     THEN dict_set(f4, "exp_long", subaru_common_footnotes.exp_long) ELSE f4

\* No ModelData: what dict.get returns for a missing key.
NoModel == [found |-> FALSE,
            data |-> [model |-> "", year |-> 0, flags |-> {}, platform |-> "",
                      exp_long |-> "absent"]]

\* A plausible slip: a missing id is looked up with a default ModelData.
base_process_model_with_default(md, id) ==
  IF id \in DOMAIN md THEN [found |-> TRUE, data |-> md[id]]
  ELSE [found |-> TRUE,
        data |-> [model |-> "Sonata", year |-> 2020, flags |-> {},
                  platform |-> "SUBARU_IMPREZA", exp_long |-> "absent"]]

\* BaseProcessor.process_model: self.model_data.get(model_id).
base_process_model(md, id) ==
  IF id \in DOMAIN md THEN [found |-> TRUE, data |-> md[id]] ELSE NoModel

InitProc ==
  /\ brand \in {"hyundai", "subaru"}
  /\ model_data = EmptyDict
  /\ parts_data = EmptyDict
  /\ footnotes = EmptyDict
  /\ returned = NoReturn
  /\ ResolveOff
  /\ FlagsOff
  /\ ExtractOff
  /\ RestOff

\* processor.model_data[model_id] = ModelData(...), for a model of the
\* processor's brand.
RegisterModel ==
  /\ brand \in {"hyundai", "subaru"}
  /\ \E id \in ModelIds \ DOMAIN model_data :
       \E md \in (IF brand = "hyundai" THEN HyundaiModels ELSE SubaruModels) :
          model_data' = put(model_data, id, md)
  /\ UNCHANGED <<brand, parts_data, footnotes, returned, notProcVars>>

\* HyundaiProcessor.process_model(model_id).
HyundaiProcessModel ==
  /\ brand = "hyundai"
  /\ \E id \in ModelIds \cup {"nonexistent"} :
       IF ~base_process_model(model_data, id).found
       THEN /\ returned' = [id |-> id, value |-> "None"]
            /\ UNCHANGED <<parts_data, footnotes>>
       ELSE LET parts == hyundai_get_parts(base_process_model(model_data, id).data)
                fns == hyundai_get_footnotes(base_process_model(model_data, id).data)
            IN IF ~parts.some
               THEN /\ returned' = [id |-> id, value |-> "None"]
                    /\ UNCHANGED <<parts_data, footnotes>>
               ELSE /\ parts_data' = put(parts_data, id, parts)
                    /\ footnotes' = put(footnotes, id, fns)
                    /\ returned' = [id |-> id, value |-> "model_data"]
  /\ UNCHANGED <<brand, model_data, notProcVars>>

\* SubaruProcessor.process_model(model_id).
SubaruProcessModel ==
  /\ brand = "subaru"
  /\ \E id \in ModelIds \cup {"nonexistent"} :
       IF ~base_process_model(model_data, id).found
       THEN /\ returned' = [id |-> id, value |-> "None"]
            /\ UNCHANGED <<parts_data, footnotes>>
       ELSE /\ parts_data' = put(parts_data, id,
                                 subaru_get_model_parts(base_process_model(model_data, id).data))
            /\ footnotes' = put(footnotes, id,
                                subaru_get_model_footnotes(base_process_model(model_data, id).data))
            /\ returned' = [id |-> id, value |-> "model_data"]
  /\ UNCHANGED <<brand, model_data, notProcVars>>

NextProc == RegisterModel \/ HyundaiProcessModel \/ SubaruProcessModel

SpecProc == InitProc /\ [][NextProc]_vars

\* The last process_model call succeeded for a registered model.
ProcessSucceeded == returned.value = "model_data"

\* process_model was called for a registered model whose platform has flag f.
ProcessedWithFlag(f) ==
  /\ returned.id \in DOMAIN model_data
  /\ f \in model_data[returned.id].flags

HasFootnote(fc, key, text) == key \in dict_keys(fc) /\ dict_get(fc, key) = text

(***************************************************************************)
(* C7: when the platform of a Hyundai model has the CANFD bit, the kit the *)
(* rule names (canfd_kit) joins the explicit parts, so after process_model *)
(* the stored parts are the harness and the kit (two parts) and the stored *)
(* tools hold the pry tool.                                                *)
(***************************************************************************)
C7_FlagRequiredPartStored ==
  (brand = "hyundai" /\ ProcessedWithFlag("CANFD")) =>
     /\ returned.id \in DOMAIN parts_data
     /\ Len(parts_data[returned.id].parts) = 2
     /\ "canfd_kit" \in SeqToSet(parts_data[returned.id].parts)
     /\ "pry_tool" \in SeqToSet(parts_data[returned.id].tools)

(***************************************************************************)
(* C9: after process_model succeeds, the stored footnote collection of the *)
(* model holds the brand's base footnotes with their base text (Hyundai    *)
(* 'scc'; Subaru 'eyesight' and 'global'), whatever the platform's flags.  *)
(***************************************************************************)
C9_BaseFootnotesKept ==
  ProcessSucceeded =>
     /\ returned.id \in DOMAIN footnotes
     /\ brand = "hyundai" =>
          HasFootnote(footnotes[returned.id], "scc", hyundai_common_footnotes.scc)
     /\ brand = "subaru" =>
          /\ HasFootnote(footnotes[returned.id], "eyesight", subaru_common_footnotes.eyesight)
          /\ HasFootnote(footnotes[returned.id], "global", subaru_common_footnotes.global)

\* A Sonata whose platform has flags set was processed and, beside the base
\* footnote, got a second one.
C9_Witness ==
  /\ brand = "hyundai"
  /\ ProcessSucceeded
  /\ model_data[returned.id].model = "Sonata"
  /\ model_data[returned.id].flags # {}
  /\ Len(footnotes[returned.id]) = 2

(***************************************************************************)
(* The sentinel conversion of the bound fields in the JSON extractors.     *)
(* A raw value is written as Python prints it: the floats "-inf", "inf",   *)
(* "0.0" and "12.5", the int "0", and "None".                              *)
(***************************************************************************)
CarNames == {"comma body", "Comma Body", "Acme Car"}
Floats == {"-inf", "inf", "0.0", "12.5"}
RawValues == Floats \cup {"0", "None"}

\* isinstance(v, float)
isinstance_float(v) == v \in Floats

\* _extract_basic_info: min_steer_speed becomes None only for the vehicle
\* named "comma body" and only when it is float("-inf").
convert_min_steer_speed(name, v) ==
  IF lower(name) = "comma body" /\ isinstance_float(v) /\ v = "-inf" THEN "None" ELSE v

\* _extract_vehicle_configs: max_lateral_accel becomes None when it is a
\* float in [float("inf"), float("-inf")].
convert_max_lateral_accel(v) ==
  IF isinstance_float(v) /\ v \in {"inf", "-inf"} THEN "None" ELSE v

\* The CarParams the extractors are handed.
CarParamsSet ==
  {NoCP} \cup
  {[present |-> TRUE, has_wheelbase |-> hw, wheelbase |-> w,
    has_centerToFront |-> hc, centerToFront |-> c] :
     hw \in BOOLEAN, hc \in BOOLEAN, w \in {-27, 0, 27}, c \in {0, 11}}

\* a / b, or ZeroDivisionError.
divide(a, b) ==
  IF b = 0 THEN [err |-> "ZeroDivisionError", ratio |-> Half]
  ELSE [err |-> "none", ratio |-> [n |-> a, d |-> b]]

\* _extract_vehicle_configs and extract_metadata: 0.5 unless CP has both
\* attributes and wheelbase > 0; a ZeroDivisionError of the division is
\* caught and leaves the default.
ratio_guarded(cp) ==
  IF cp.present /\ cp.has_centerToFront /\ cp.has_wheelbase /\ cp.wheelbase > 0
  THEN LET q == divide(cp.centerToFront, cp.wheelbase)
       IN IF q.err = "none" THEN [ratio |-> q.ratio, divided_by_zero |-> FALSE]
          ELSE [ratio |-> Half, divided_by_zero |-> TRUE]
  ELSE DefaultRatio

\* car_docs_to_dict of scripts/create_cars_json.py:
\* getattr(CP, "centerToFront", 0.5) / getattr(CP, "wheelbase", 1.0)
\* if CP and getattr(CP, "wheelbase", 0) != 0 else 0.5.  The quotient of two
\* lengths in tenths, or of 0.5 (5 tenths) and a length in tenths.
ratio_scripts(cp) ==
  IF cp.present /\ (IF cp.has_wheelbase THEN cp.wheelbase ELSE 0) # 0
  THEN LET q == divide(IF cp.has_centerToFront THEN cp.centerToFront ELSE 5,
                       cp.wheelbase)
       IN [ratio |-> q.ratio, divided_by_zero |-> q.err # "none"]
  ELSE DefaultRatio

InitExtract ==
  /\ xpc = "idle"
  /\ car_doc = NoCar
  /\ car_data = NoCar
  /\ CP = NoCP
  /\ center_to_front_ratio = DefaultRatio
  /\ ResolveOff
  /\ FlagsOff
  /\ ProcOff
  /\ RestOff

\* The raw maxLateralAccel an extractor reads from CP: None without CP.
LateralAccels(cp) == IF cp.present THEN RawValues ELSE {"None"}

\* MetadataExtractor.extract_car_data of create_cars_json.py, for one
\* vehicle: the bound fields and the ratio of the record it builds.
ExtractCarData ==
  /\ xpc = "idle"
  /\ \E n \in CarNames, mss \in RawValues, cp \in CarParamsSet :
       \E mla \in LateralAccels(cp) :
          /\ car_doc' = [name |-> n, min_steer_speed |-> mss, max_lateral_accel |-> mla]
          /\ CP' = cp
          /\ car_data' = [name |-> n,
                          min_steer_speed |-> convert_min_steer_speed(n, mss),
                          max_lateral_accel |-> convert_max_lateral_accel(mla)]
          /\ center_to_front_ratio' = ratio_guarded(cp)
  /\ xpc' = "extract_car_data"
  /\ UNCHANGED notExtractVars

\* extract_metadata of get_metadata.py, for one vehicle: the same rules;
\* without CarParams it returns None and builds no record.
ExtractMetadata ==
  /\ xpc = "idle"
  /\ \E n \in CarNames, mss \in RawValues, cp \in CarParamsSet :
       \E mla \in LateralAccels(cp) :
          /\ car_doc' = [name |-> n, min_steer_speed |-> mss, max_lateral_accel |-> mla]
          /\ CP' = cp
          /\ IF ~cp.present
             THEN /\ car_data' = NoCar
                  /\ center_to_front_ratio' = DefaultRatio
                  /\ xpc' = "extract_metadata_none"
             ELSE /\ car_data' = [name |-> n,
                                  min_steer_speed |-> convert_min_steer_speed(n, mss),
                                  max_lateral_accel |-> convert_max_lateral_accel(mla)]
                  /\ center_to_front_ratio' = ratio_guarded(cp)
                  /\ xpc' = "extract_metadata"
  /\ UNCHANGED notExtractVars

\* car_docs_to_dict of scripts/create_cars_json.py, for one vehicle.
CarDocsToDict ==
  /\ xpc = "idle"
  /\ \E n \in CarNames, mss \in RawValues, cp \in CarParamsSet :
       \E mla \in LateralAccels(cp) :
          /\ car_doc' = [name |-> n, min_steer_speed |-> mss, max_lateral_accel |-> mla]
          /\ CP' = cp
          /\ car_data' = [name |-> n,
                          min_steer_speed |-> convert_min_steer_speed(n, mss),
                          max_lateral_accel |-> convert_max_lateral_accel(mla)]
          /\ center_to_front_ratio' = ratio_scripts(cp)
  /\ xpc' = "car_docs_to_dict"
  /\ UNCHANGED notExtractVars

NextExtract == ExtractCarData \/ ExtractMetadata \/ CarDocsToDict

SpecExtract == InitExtract /\ [][NextExtract]_vars

Extracted == xpc \in {"extract_car_data", "extract_metadata", "car_docs_to_dict"}

Infinite(v) == v \in {"inf", "-inf"}

(***************************************************************************)
(* C10: for max_lateral_accel and min_steer_speed, a raw value of positive *)
(* or negative infinity is emitted as null for every vehicle, and every    *)
(* finite raw value is emitted unchanged.                                  *)
(***************************************************************************)
C10_InfinityBecomesNull ==
  Extracted =>
     /\ IF Infinite(car_doc.min_steer_speed)
        THEN car_data.min_steer_speed = "None"
        ELSE car_data.min_steer_speed = car_doc.min_steer_speed
     /\ IF Infinite(car_doc.max_lateral_accel)
        THEN car_data.max_lateral_accel = "None"
        ELSE car_data.max_lateral_accel = car_doc.max_lateral_accel

(***************************************************************************)
(* C11: center_to_front_ratio is centerToFront / wheelbase only when       *)
(* wheelbase is strictly positive; for a wheelbase that is zero, negative  *)
(* or absent, or without CarParams, the emitted ratio is exactly 0.5, and  *)
(* no division by zero is evaluated, in every variant of the extractor.    *)
(***************************************************************************)
RatioEq(a, b) == a.n * b.d = b.n * a.d

PositiveWheelbase == CP.present /\ CP.has_wheelbase /\ CP.wheelbase > 0

C11_RatioOnlyForPositiveWheelbase ==
  Extracted =>
     /\ ~center_to_front_ratio.divided_by_zero
     /\ ~PositiveWheelbase => RatioEq(center_to_front_ratio.ratio, Half)

(***************************************************************************)
(* PartsCatalog of base/parts_catalog.py: class-level tables filled by     *)
(* initialize(), which the get_* accessors call when _initialized is       *)
(* False.  There is no lock.  A table is named by the construction it      *)
(* came from: the descriptor objects of two constructions are different    *)
(* objects.  Each worker runs its call one statement at a time.            *)
(***************************************************************************)
CatalogOps == {"initialize", "get_harness", "get_kit"}

\* A plausible slip: initialize() without its early return.
initialize_always_builds(flag) == FALSE

\* initialize(): if cls._initialized: return
initialize_returns_early(flag) == flag

\* Where a worker continues when initialize() returns.
after_initialize(wk) ==
  IF wk.op = "initialize"
  THEN [wk EXCEPT !.pc = "idle", !.calls = Append(@, wk.op)]
  ELSE [wk EXCEPT !.pc = "get_read"]

\* The class body: empty tables, _initialized = False.  The call of
\* initialize() at the end of the module is one of the calls below.
InitCatalog ==
  /\ initialized = FALSE
  /\ harnesses = NoBuild
  /\ kits = NoBuild
  /\ builds = 0
  /\ worker = [w \in Workers |-> IdleWorker]
  /\ ResolveOff
  /\ FlagsOff
  /\ ProcOff
  /\ ExtractOff
  /\ RunOff
  /\ NotesOff
  /\ TwiceOff
  /\ NameOff

\* The module was imported: the initialize() at its end has run to
\* completion before any worker calls.
InitCatalogImported ==
  /\ initialized = TRUE
  /\ harnesses = 1
  /\ kits = 1
  /\ builds = 1
  /\ worker = [w \in Workers |-> IdleWorker]
  /\ ResolveOff
  /\ FlagsOff
  /\ ProcOff
  /\ ExtractOff
  /\ RunOff
  /\ NotesOff
  /\ TwiceOff
  /\ NameOff

\* A worker calls initialize() or an accessor.
CatalogCall(w) ==
  /\ worker[w].pc = "idle"
  /\ Len(worker[w].calls) < MaxCalls
  /\ \E op \in CatalogOps :
       worker' = [worker EXCEPT ![w].op = op,
                                ![w].pc = IF op = "initialize" THEN "init_check"
                                          ELSE "get_check"]
  /\ UNCHANGED <<initialized, harnesses, kits, builds, notCatalogVars>>

\* One statement of PartsCatalog.initialize() by worker w.
initialize(w) ==
  /\ worker[w].pc \in {"init_check", "init_harnesses", "init_kits", "init_flag"}
  /\ CASE worker[w].pc = "init_check" ->
            IF initialize_returns_early(initialized)
            THEN /\ worker' = [worker EXCEPT ![w] = after_initialize(@)]
                 /\ UNCHANGED <<initialized, harnesses, kits, builds>>
            ELSE /\ builds' = builds + 1
                 /\ worker' = [worker EXCEPT ![w].build = builds + 1,
                                          ![w].pc = "init_harnesses"]
                 /\ UNCHANGED <<initialized, harnesses, kits>>
       [] worker[w].pc = "init_harnesses" ->
            /\ harnesses' = worker[w].build
            /\ worker' = [worker EXCEPT ![w].pc = "init_kits"]
            /\ UNCHANGED <<initialized, kits, builds>>
       [] worker[w].pc = "init_kits" ->
            /\ kits' = worker[w].build
            /\ worker' = [worker EXCEPT ![w].pc = "init_flag"]
            /\ UNCHANGED <<initialized, harnesses, builds>>
       [] worker[w].pc = "init_flag" ->
            /\ initialized' = TRUE
            /\ worker' = [worker EXCEPT ![w] = after_initialize(@)]
            /\ UNCHANGED <<harnesses, kits, builds>>
  /\ UNCHANGED notCatalogVars

\* One statement of an accessor (get_harness, get_kit) by worker w:
\* if not cls._initialized: cls.initialize(); return cls._table[id].
get_part(w) ==
  /\ worker[w].pc \in {"get_check", "get_read"}
  /\ CASE worker[w].pc = "get_check" ->
            worker' = [worker EXCEPT ![w].pc = IF ~initialized THEN "init_check"
                                               ELSE "get_read"]
       [] worker[w].pc = "get_read" ->
            worker' = [worker EXCEPT
                         ![w].got[worker[w].op] =
                            IF worker[w].op = "get_harness" THEN harnesses ELSE kits,
                         ![w].pc = "idle",
                         ![w].calls = Append(@, worker[w].op)]
  /\ UNCHANGED <<initialized, harnesses, kits, builds, notCatalogVars>>

NextCatalog == \E w \in Workers : CatalogCall(w) \/ initialize(w) \/ get_part(w)

SpecCatalog == InitCatalog /\ [][NextCatalog]_vars

SpecCatalogImported == InitCatalogImported /\ [][NextCatalog]_vars

Accessors == {"get_harness", "get_kit"}

C13_ReadOnlyAfterInitialization ==
  [][initialized =>
       /\ harnesses' = harnesses
       /\ kits' = kits
       /\ \A w \in DOMAIN worker, a \in Accessors :
             worker[w].got[a] # NoBuild => worker'[w].got[a] = worker[w].got[a]]_vars

\* A worker looked a harness up, re-initialized, and looked it up again.
C13_Witness ==
  \E w \in DOMAIN worker :
     /\ worker[w].calls = <<"get_harness", "initialize", "get_harness">>
     /\ worker[w].got["get_harness"] # NoBuild

(***************************************************************************)
(* The generator runs: generate_json of create_cars_json.py, main of       *)
(* get_metadata.py and main of scripts/create_cars_json.py, over a list of *)
(* car docs.                                                               *)
(***************************************************************************)
PLATFORMS == {"KNOWN"}

\* An optional number: None or a value.  Mass in kg, wheelbase in tenths
\* of a metre.
Absent == [some |-> FALSE, v |-> 0]
Num(n) == [some |-> TRUE, v |-> n]

NoParams == [present |-> FALSE, mass |-> Absent, wheelbase |-> Absent]
Params(m, wb) == [present |-> TRUE, mass |-> m, wheelbase |-> wb]
PlausibleParams == Params(Num(1500), Num(27))

\* Params with a value missing, on a range boundary or out of range.
SuspiciousParams ==
  {Params(Absent, Absent), Params(Num(500), Num(50)), Params(Num(5000), Num(10)),
   Params(Num(499), Num(27)), Params(Num(1500), Num(51)), Params(Num(5001), Num(9))}

CarDoc(n, fp, mk, md, cp, r) ==
  [name |-> n, car_fingerprint |-> fp, make |-> mk, model |-> md, cp |-> cp, raises |-> r]

\* The car docs a run is given: sound ones with every make and model,
\* ones with suspicious parameters, and ones that fail each in its own way
\* (no name, no fingerprint, unknown platform, no parameters, an exception
\* while extracting).
CarDocsSet ==
  {CarDoc("car", "KNOWN", mk, md, PlausibleParams, FALSE) :
     mk \in {None, "", "Acme", "Bolt"}, md \in {None, "", "M", "N"}}
  \cup {CarDoc("car", "KNOWN", "Acme", "M", cp, FALSE) : cp \in SuspiciousParams}
  \cup {CarDoc("", "KNOWN", "Acme", "M", PlausibleParams, FALSE),
        CarDoc("car", "", "Acme", "M", PlausibleParams, FALSE),
        CarDoc("car", "UNKNOWN", "Acme", "M", PlausibleParams, FALSE),
        CarDoc("car", "KNOWN", "Acme", "M", NoParams, FALSE),
        CarDoc("car", "KNOWN", "Acme", "M", PlausibleParams, TRUE)}

\* `not x` for a string or None.
falsy(x) == x = None \/ x = ""

\* The record an extractor builds; src is the doc's place in the input.
car_dict(doc, i) ==
  [src |-> i, name |-> doc.name, make |-> doc.make, model |-> doc.model,
   car_fingerprint |-> doc.car_fingerprint,
   mass |-> doc.cp.mass, wheelbase |-> doc.cp.wheelbase]

\* _validate_car_doc and extract_car_data of create_cars_json.py for one
\* car: "warning" (rejected), "error" (platform not found, or an exception
\* caught by except Exception) or "record".
extract_car_data(doc) ==
  IF falsy(doc.name) THEN "warning"
  ELSE IF falsy(doc.car_fingerprint) THEN "warning"
  ELSE IF doc.car_fingerprint \notin PLATFORMS THEN "error"
  ELSE IF doc.raises THEN "error"
  ELSE "record"

\* A plausible slip: processed_cars counts every car the loop visits, not
\* only those that gave a record.
RECURSIVE generate_loop_counts_every_car(_, _, _, _)
generate_loop_counts_every_car(docs, i, data, st) ==
  IF i > Len(docs) THEN [cars_data |-> data, stats |-> st]
  ELSE LET r == extract_car_data(docs[i])
           counted == [st EXCEPT !.processed_cars = @ + 1]
       IN IF r = "record"
          THEN generate_loop_counts_every_car(docs, i + 1,
                                              Append(data, car_dict(docs[i], i)), counted)
          ELSE IF r = "warning"
          THEN generate_loop_counts_every_car(docs, i + 1, data,
                                              [counted EXCEPT !.warnings = @ + 1])
          ELSE generate_loop_counts_every_car(docs, i + 1, data,
                                              [counted EXCEPT !.errors = @ + 1])

\* The loop of generate_json over all_cars.
RECURSIVE generate_loop(_, _, _, _)
generate_loop(docs, i, data, st) ==
  IF i > Len(docs) THEN [cars_data |-> data, stats |-> st]
  ELSE LET r == extract_car_data(docs[i])
       IN IF r = "record"
          THEN generate_loop(docs, i + 1, Append(data, car_dict(docs[i], i)),
                             [st EXCEPT !.processed_cars = @ + 1])
          ELSE IF r = "warning"
          THEN generate_loop(docs, i + 1, data, [st EXCEPT !.warnings = @ + 1])
          ELSE generate_loop(docs, i + 1, data, [st EXCEPT !.errors = @ + 1])

\* extract_metadata of get_metadata.py for one car: "None", "exception"
\* (getattr(car_doc, "model", "") + ... with model None, or any other
\* exception) or "record".
extract_metadata(doc) ==
  IF falsy(doc.car_fingerprint) \/ doc.car_fingerprint \notin PLATFORMS THEN "None"
  ELSE IF ~doc.cp.present THEN "None"
  ELSE IF doc.model = None \/ doc.raises THEN "exception"
  ELSE "record"

\* The loop of main of get_metadata.py: every failure is counted in errors.
RECURSIVE metadata_loop(_, _, _, _)
metadata_loop(docs, i, data, st) ==
  IF i > Len(docs) THEN [cars_data |-> data, stats |-> st]
  ELSE IF extract_metadata(docs[i]) = "record"
       THEN metadata_loop(docs, i + 1, Append(data, car_dict(docs[i], i)),
                          [st EXCEPT !.processed_cars = @ + 1])
       ELSE metadata_loop(docs, i + 1, data, [st EXCEPT !.errors = @ + 1])

\* The loop of main of scripts/create_cars_json.py: PLATFORMS[model] and
\* car_docs_to_dict are not inside any try; the first failure ends the loop
\* with the exception.
RECURSIVE scripts_loop(_, _, _)
scripts_loop(docs, i, data) ==
  IF i > Len(docs) THEN [cars_data |-> data, raised |-> FALSE]
  ELSE IF docs[i].car_fingerprint \notin PLATFORMS \/ docs[i].raises
       THEN [cars_data |-> data, raised |-> TRUE]
       ELSE scripts_loop(docs, i + 1, Append(data, car_dict(docs[i], i)))

\* The rank of a string in string order.
str_rank(x) ==
  CASE x = "" -> 0
    [] x = "Acme" -> 1
    [] x = "Bolt" -> 2
    [] x = "M" -> 1
    [] x = "N" -> 2

\* a < b for tuples of two strings.
tuple_lt(a, b) ==
  \/ str_rank(a[1]) < str_rank(b[1])
  \/ str_rank(a[1]) = str_rank(b[1]) /\ str_rank(a[2]) < str_rank(b[2])

\* x or ''
or_empty(x) == IF falsy(x) THEN "" ELSE x

\* sort_by_make_then_model: (car.get('make') or '', car.get('model') or '')
sort_by_make_then_model(car) == <<or_empty(car.make), or_empty(car.model)>>

\* sorted(cars_data, key=sort_by_make_then_model): stable, by insertion
\* after the last element that is not greater.
RECURSIVE insert_by_key(_, _)
insert_by_key(sorted, car) ==
  IF sorted = <<>> THEN <<car>>
  ELSE IF tuple_lt(sort_by_make_then_model(car), sort_by_make_then_model(Head(sorted)))
       THEN <<car>> \o sorted
       ELSE <<Head(sorted)>> \o insert_by_key(Tail(sorted), car)

RECURSIVE sorted_by_key(_, _)
sorted_by_key(data, acc) ==
  IF data = <<>> THEN acc ELSE sorted_by_key(Tail(data), insert_by_key(acc, Head(data)))

\* cars_data.sort(key=lambda car: (car.get("make", ""), car.get("model", "")))
\* of get_metadata.py: a make of None stays None in the key, and comparing
\* None with a str raises TypeError.
metadata_sort_raises(data) ==
  \E i, j \in 1..Len(data) : data[i].make = None /\ data[j].make # None

\* The range checks of validate_output; variants that also warn on the
\* boundary are defined first.
suspicious_mass_inclusive(m) == m.some /\ (m.v <= 500 \/ m.v >= 5000)

suspicious_mass(m) == m.some /\ (m.v < 500 \/ m.v > 5000)

suspicious_wheelbase(wb) == wb.some /\ (wb.v < 10 \/ wb.v > 50)

\* The required fields of a record that are empty or null.
missing_required(car) ==
  {f \in {"name", "make", "model", "car_fingerprint"} : falsy(car[f])}

RECURSIVE validate_loop(_, _, _, _)
validate_loop(data, i, validation_errors, warnings) ==
  IF i > Len(data) THEN [ok |-> validation_errors = 0, warnings |-> warnings]
  ELSE validate_loop(data, i + 1,
         validation_errors + Cardinality(missing_required(data[i])),
         warnings + (IF suspicious_mass(data[i].mass) THEN 1 ELSE 0)
                  + (IF suspicious_wheelbase(data[i].wheelbase) THEN 1 ELSE 0))

\* validate_output(cars_data) with self.stats.warnings = warnings before.
validate_output(data, warnings) == validate_loop(data, 1, 0, warnings)

\* The lists of car docs get_all_car_docs() can return.
CarDocLists == UNION {[1..n -> CarDocsSet] : n \in 0..MaxCars}

InitRun ==
  /\ gpc = "idle"
  /\ all_cars = <<>>
  /\ cars_data = <<>>
  /\ output_file = NoFile
  /\ stats = ZeroStats
  /\ exit_status = "running"
  /\ ResolveOff
  /\ FlagsOff
  /\ ProcOff
  /\ ExtractOff
  /\ CatalogOff
  /\ NotesOff
  /\ TwiceOff
  /\ NameOff

Written(data) == [written |-> TRUE, data |-> data]

\* main and generate_json of create_cars_json.py, on a writable output
\* path: the run ends with exit status 0 or 1.
GenerateJson ==
  /\ gpc = "idle"
  /\ \E found \in CarDocLists, validate \in BOOLEAN, get_all_car_docs_raises \in BOOLEAN :
       LET \* get_all_cars: an exception is counted as one error and gives [].
           docs == IF get_all_car_docs_raises THEN <<>> ELSE found
           total == [ZeroStats EXCEPT !.total_cars = Len(docs),
                                      !.errors = IF get_all_car_docs_raises THEN 1 ELSE 0]
           loop == generate_loop(docs, 1, <<>>, total)
           data == sorted_by_key(loop.cars_data, <<>>)
           v == validate_output(data, loop.stats.warnings)
       IN /\ all_cars' = docs
          /\ gpc' = IF validate THEN "generate_json --validate" ELSE "generate_json"
          /\ IF Len(docs) = 0
             THEN /\ cars_data' = <<>>
                  /\ stats' = total
                  /\ output_file' = NoFile
                  /\ exit_status' = "1"
             ELSE IF loop.cars_data = <<>>
             THEN /\ cars_data' = <<>>
                  /\ stats' = loop.stats
                  /\ output_file' = NoFile
                  /\ exit_status' = "1"
             ELSE /\ cars_data' = data
                  /\ output_file' = Written(data)
                  /\ stats' = IF validate
                              THEN [loop.stats EXCEPT !.warnings = v.warnings]
                              ELSE loop.stats
                  /\ exit_status' = IF validate /\ ~v.ok THEN "1" ELSE "0"
  /\ UNCHANGED notRunVars

\* main of get_metadata.py: an uncaught TypeError of the sort ends the
\* process with a traceback before cars.json is opened.
GetMetadataMain ==
  /\ gpc = "idle"
  /\ \E docs \in CarDocLists :
       LET loop == metadata_loop(docs, 1, <<>>, ZeroStats)
       IN /\ all_cars' = docs
          /\ gpc' = "get_metadata"
          /\ stats' = loop.stats
          /\ IF metadata_sort_raises(loop.cars_data)
             THEN /\ cars_data' = loop.cars_data
                  /\ output_file' = NoFile
                  /\ exit_status' = "traceback"
             ELSE /\ cars_data' = sorted_by_key(loop.cars_data, <<>>)
                  /\ output_file' = Written(cars_data')
                  /\ exit_status' = "0"
  /\ UNCHANGED notRunVars

\* main of scripts/create_cars_json.py: an exception in the loop ends the
\* process with a traceback before the output file is opened.
ScriptsMain ==
  /\ gpc = "idle"
  /\ \E docs \in CarDocLists :
       LET loop == scripts_loop(docs, 1, <<>>)
       IN /\ all_cars' = docs
          /\ gpc' = "scripts"
          /\ cars_data' = loop.cars_data
          /\ stats' = ZeroStats
          /\ IF loop.raised
             THEN /\ output_file' = NoFile
                  /\ exit_status' = "traceback"
             ELSE /\ output_file' = Written(loop.cars_data)
                  /\ exit_status' = "0"
  /\ UNCHANGED notRunVars

NextRun == GenerateJson \/ GetMetadataMain \/ ScriptsMain

SpecRun == InitRun /\ [][NextRun]_vars

\* The run of create_cars_json.py, with or without --validate, has ended.
GenerateJsonDone == gpc \in {"generate_json", "generate_json --validate"}

\* The places of the written records in the input.
WrittenSrc == {output_file.data[j].src : j \in 1..Len(output_file.data)}

\* The docs that lack one of the four identity fields.
LacksIdentity(doc) ==
  falsy(doc.name) \/ falsy(doc.make) \/ falsy(doc.model) \/ falsy(doc.car_fingerprint)

(***************************************************************************)
(* C14: a record that lacks an identity-critical field (name, make, model  *)
(* or car_fingerprint empty or null) does not appear in the output written *)
(* by create_cars_json.py, and the remaining records are still emitted.    *)
(***************************************************************************)
C14_IncompleteRecordsNotWritten ==
  GenerateJsonDone =>
    /\ \A i \in 1..Len(all_cars) : LacksIdentity(all_cars[i]) => i \notin WrittenSrc
    /\ \A i \in 1..Len(all_cars) :
         ~LacksIdentity(all_cars[i]) /\ extract_car_data(all_cars[i]) = "record"
           => output_file.written /\ i \in WrittenSrc

\* A value was given and lies outside lo..hi.
OutOfRange(x, lo, hi) == x.some /\ x.v \notin lo..hi

(***************************************************************************)
(* C15: under --validate, each mass outside 500..5000 kg and each          *)
(* wheelbase outside 1.0..5.0 m of a written record adds exactly one       *)
(* warning, a boundary or absent value adds none, the record is still in   *)
(* the written output, and validation fails only when a written record     *)
(* lacks a required field.                                                 *)
(***************************************************************************)
C15_RangeWarningsOnly ==
  gpc = "generate_json --validate" /\ output_file.written =>
    LET data == output_file.data
        rejected == {i \in 1..Len(all_cars) :
                       falsy(all_cars[i].name) \/ falsy(all_cars[i].car_fingerprint)}
        mass_out == {j \in 1..Len(data) : OutOfRange(data[j].mass, 500, 5000)}
        wheelbase_out == {j \in 1..Len(data) : OutOfRange(data[j].wheelbase, 10, 50)}
    IN /\ stats.warnings
            = Cardinality(rejected) + Cardinality(mass_out) + Cardinality(wheelbase_out)
       /\ (exit_status = "1") <=> (\E j \in 1..Len(data) : missing_required(data[j]) # {})
       /\ \A i \in 1..Len(all_cars) :
            extract_car_data(all_cars[i]) = "record" => i \in WrittenSrc

\* A validated run wrote a record with a mass below the range and one with
\* the mass and the wheelbase on the boundary: one warning, exit status 0.
C15_Witness ==
  /\ gpc = "generate_json --validate"
  /\ output_file.written
  /\ \E j, k \in 1..Len(output_file.data) :
       /\ output_file.data[j].mass = Num(499)
       /\ output_file.data[k].mass = Num(500)
       /\ output_file.data[k].wheelbase = Num(50)
  /\ stats.warnings = 1
  /\ exit_status = "0"

\* The outcome of the variant's extractor for a doc is a record.
ExtractsRecord(doc) ==
  CASE GenerateJsonDone -> extract_car_data(doc) = "record"
    [] gpc = "get_metadata" -> extract_metadata(doc) = "record"
    [] gpc = "scripts" -> doc.car_fingerprint \in PLATFORMS /\ ~doc.raises
    [] OTHER -> FALSE

(***************************************************************************)
(* C16: in every variant, a failure while extracting one car does not      *)
(* abort the run: every car whose extraction succeeds is written.  (Runs   *)
(* of get_metadata.py whose sort raises are left to C18.)                  *)
(***************************************************************************)
C16_FailureIsolated ==
  gpc # "idle" /\ ~(gpc = "get_metadata" /\ metadata_sort_raises(cars_data)) =>
    \A i \in 1..Len(all_cars) :
      ExtractsRecord(all_cars[i]) => output_file.written /\ i \in WrittenSrc

(***************************************************************************)
(* C17: a run of create_cars_json.py or get_metadata.py in which no record *)
(* was extracted writes no output file and exits non-zero.                 *)
(***************************************************************************)
C17_NoRecordsIsFailure ==
  (GenerateJsonDone \/ gpc = "get_metadata") /\ stats.processed_cars = 0 =>
    ~output_file.written /\ exit_status # "0"

\* The (make, model) key of the claim: empty or null sorts as "".
MakeModel(car) == <<or_empty(car.make), or_empty(car.model)>>

(***************************************************************************)
(* C18: when create_cars_json.py or get_metadata.py extracted records, the *)
(* emitted list is a permutation of them in ascending (make, model) order, *)
(* ties in extraction order, and an empty or null make comes first without *)
(* an exception.                                                           *)
(***************************************************************************)
C18_SortedStablePermutation ==
  (GenerateJsonDone \/ gpc = "get_metadata") /\ stats.processed_cars > 0 =>
    LET data == output_file.data
    IN /\ exit_status # "traceback"
       /\ output_file.written
       /\ Len(data) = stats.processed_cars
       /\ WrittenSrc = {i \in 1..Len(all_cars) : ExtractsRecord(all_cars[i])}
       /\ \A j, k \in 1..Len(data) :
            j < k => /\ ~tuple_lt(MakeModel(data[k]), MakeModel(data[j]))
                     /\ MakeModel(data[j]) = MakeModel(data[k]) => data[j].src < data[k].src

(***************************************************************************)
(* Footnote references of a catalog entry, at the three sites that resolve *)
(* them: get_footnotes_for_model of hyundai/footnotes.py,                  *)
(* _extract_basic_info of create_cars_json.py and convert_car_docs_to_json *)
(* of generate_car_data_json.py.                                           *)
(***************************************************************************)
MaxRefs == 3

\* The identifiers of the footnote table.
FOOTNOTES == {"scc", "min_speed", "radar_scc", "canfd"}

\* The references an entry can carry; "undefined" is in no footnote table.
FootnoteRefs == {"scc", "min_speed", "canfd", "undefined"}

resolvable(fn) == fn \in FOOTNOTES

\* get_footnotes_for_model: a dict comprehension over the references that
\* are in FOOTNOTES; its keys, in insertion order.
get_footnotes_for_model(refs) == first_occurrences(SelectSeq(refs, resolvable), {})

\* [fn.value.text for fn in car_doc.footnotes] inside try/except Exception:
\* pass; an exception in the comprehension leaves footnotes = [].
extract_basic_info_footnotes(refs) ==
  IF \E i \in 1..Len(refs) : ~resolvable(refs[i]) THEN <<>> ELSE refs

\* [str(all_footnotes[fn]) for fn in car.footnotes] raises KeyError.
convert_raises(refs) == \E i \in 1..Len(refs) : ~resolvable(refs[i])

FootnoteLists == UNION {[1..n -> FootnoteRefs] : n \in 0..MaxRefs}

InitNotes ==
  /\ npc = "idle"
  /\ explicit_footnotes = <<>>
  /\ emitted_footnotes = <<>>
  /\ footnotes_raised = None
  /\ ResolveOff
  /\ FlagsOff
  /\ ProcOff
  /\ ExtractOff
  /\ CatalogOff
  /\ RunOff
  /\ TwiceOff
  /\ NameOff

GetFootnotesForModel ==
  /\ npc = "idle"
  /\ \E refs \in FootnoteLists :
       /\ explicit_footnotes' = refs
       /\ emitted_footnotes' = get_footnotes_for_model(refs)
  /\ npc' = "get_footnotes_for_model"
  /\ footnotes_raised' = None
  /\ UNCHANGED notNoteVars

ExtractBasicInfo ==
  /\ npc = "idle"
  /\ \E refs \in FootnoteLists :
       /\ explicit_footnotes' = refs
       /\ emitted_footnotes' = extract_basic_info_footnotes(refs)
  /\ npc' = "_extract_basic_info"
  /\ footnotes_raised' = None
  /\ UNCHANGED notNoteVars

\* generate_car_data_json wraps the KeyError in a RuntimeError that leaves
\* main: nothing is written.
ConvertCarDocsToJson ==
  /\ npc = "idle"
  /\ \E refs \in FootnoteLists :
       /\ explicit_footnotes' = refs
       /\ emitted_footnotes' = IF convert_raises(refs) THEN <<>> ELSE refs
       /\ footnotes_raised' = IF convert_raises(refs) THEN "RuntimeError" ELSE None
  /\ npc' = "convert_car_docs_to_json"
  /\ UNCHANGED notNoteVars

NextNotes == GetFootnotesForModel \/ ExtractBasicInfo \/ ConvertCarDocsToJson

SpecNotes == InitNotes /\ [][NextNotes]_vars

\* s keeps the order of t: its elements are found in t from left to right.
RECURSIVE InOrderOf(_, _)
InOrderOf(s, t) ==
  IF s = <<>> THEN TRUE
  ELSE IF t = <<>> THEN FALSE
  ELSE IF Head(s) = Head(t) THEN InOrderOf(Tail(s), Tail(t))
  ELSE InOrderOf(s, Tail(t))

\* The elements of a list.
Elems(s) == {s[i] : i \in 1..Len(s)}

(***************************************************************************)
(* C19: when an entry carries a footnote reference that is not in the      *)
(* footnote table, that reference alone is dropped: every resolvable       *)
(* reference is still emitted, in the original order, and no exception     *)
(* leaves the site.                                                        *)
(***************************************************************************)
C19_OnlyUnresolvableDropped ==
  npc # "idle" =>
    /\ footnotes_raised = None
    /\ Elems(emitted_footnotes) = {fn \in Elems(explicit_footnotes) : resolvable(fn)}
    /\ InOrderOf(emitted_footnotes, explicit_footnotes)

(***************************************************************************)
(* Rule tables whose rules name a required part: FlagConfig.part_required  *)
(* against the brand's part table, self.common_parts of HyundaiProcessor.  *)
(***************************************************************************)
\* The keys of self.common_parts after _initialize_common_parts.
common_parts == {"harness_a", "harness_b", "harness_g", "harness_k", "canfd_kit"}

\* What a rule can carry as part_required: nothing, a part of the brand's
\* table, or a part that is in no table.
PartsRequired == {None, "canfd_kit", "harness_z"}

\* The footnote_key that goes with each flag in HyundaiProcessor.FLAG_CONFIGS.
footnote_key_of(f) ==
  CASE f = "MIN_STEER_32_MPH" -> "min_speed"
    [] f = "MANDO_RADAR" -> "radar_scc"
    [] f = "CANFD" -> "canfd"

\* One more FlagConfig, with its part_required, is declared in FLAG_CONFIGS.
DeclareRuleWithPart ==
  /\ fpc = "idle"
  /\ Len(FLAG_CONFIGS) < MaxRules
  /\ \E f \in FlagNames, part \in PartsRequired :
       FLAG_CONFIGS' = Append(FLAG_CONFIGS,
                              [flag_name |-> f, footnote_key |-> footnote_key_of(f),
                               footnote_text |-> Len(FLAG_CONFIGS) + 1,
                               part_required |-> part])
  /\ UNCHANGED <<fpc, platform_flags, flag_footnotes, notFlagVars>>

\* Construction and first use of a processor over such a table: __init__
\* and _get_model_footnotes never read part_required.
NextRules == DeclareRuleWithPart \/ ConstructWithoutRules \/ GetModelFootnotes

SpecRules == InitFlags /\ [][NextRules]_vars

\* The rules that name a required part that is not in the part table.
UndefinedPartRules ==
  {i \in 1..Len(FLAG_CONFIGS) :
     FLAG_CONFIGS[i].part_required \notin common_parts \cup {None}}

(***************************************************************************)
(* C20: a processor whose rule table has a rule naming a required part     *)
(* that is not in the brand's part table does not get through construction *)
(* and first use: it ends in a configuration error.                        *)
(***************************************************************************)
C20_UndefinedPartIsFatal ==
  UndefinedPartRules # {} => ~FlagsDerived

\* The parts an entry list names.
EntryParts(entries) == {entries[i].part : i \in 1..Len(entries)}

(***************************************************************************)
(* C21: in every extractor, each part of the expanded part list is in      *)
(* exactly one of the two outputs: tools_required holds exactly the Tool   *)
(* parts and detailed_parts exactly the others, and an empty explicit list *)
(* gives two empty lists.                                                  *)
(***************************************************************************)
C21_PartsPartitioned ==
  (rpc \in {"extract", "extract_metadata", "car_docs_to_dict"} /\ resolved.err = "none") =>
     /\ EntryParts(tools_required) = {p \in SeqToSet(resolved.parts) : IsTool(p)}
     /\ EntryParts(detailed_parts) = {p \in SeqToSet(resolved.parts) : ~IsTool(p)}
     /\ explicit = <<>> => detailed_parts = <<>> /\ tools_required = <<>>

\* The (id, text) pairs of a derived mapping.
IdsAndTexts(d) == {<<d[i].k, d[i].v>> : i \in 1..Len(d)}

\* The orders in which the rules of the table can be evaluated.
RuleOrders ==
  {perm \in [1..Len(FLAG_CONFIGS) -> 1..Len(FLAG_CONFIGS)] :
     \A i, j \in 1..Len(FLAG_CONFIGS) : i # j => perm[i] # perm[j]}

\* What the engine derives when the rules are taken in the order perm.
DerivedInOrder(perm) ==
  get_model_footnotes(
    initialize_flag_configs([i \in 1..Len(FLAG_CONFIGS) |-> FLAG_CONFIGS[perm[i]]], 1, <<>>),
    platform_flags, 1, <<>>)

(***************************************************************************)
(* C22: for a fixed rule table and flag set, the derived footnote mapping  *)
(* (ids and texts) is the same for every order in which the rules are      *)
(* evaluated, also when two rules share a footnote id or a flag bit.       *)
(***************************************************************************)
C22_OrderIndependent ==
  FlagsDerived =>
     \A perm \in RuleOrders : IdsAndTexts(DerivedInOrder(perm)) = IdsAndTexts(flag_footnotes)

(***************************************************************************)
(* C27: every rule of the table whose flag bit is set contributes its      *)
(* footnote id to the derived mapping, also when another rule is bound to  *)
(* the same flag bit with a different footnote id.                         *)
(***************************************************************************)
C27_EverySetRuleContributes ==
  FlagsDerived =>
     \A i \in 1..Len(FLAG_CONFIGS) :
        FLAG_CONFIGS[i].flag_name \in platform_flags
          => FLAG_CONFIGS[i].footnote_key \in dict_keys(flag_footnotes)

(***************************************************************************)
(* Resolving a list again: get_all_parts_for_model and                     *)
(* _format_detailed_parts, called twice in one interpreter or in two.  The *)
(* parts are Enum members, whose hash is the hash of a str and so differs  *)
(* from one interpreter to the next; sorted(set(parts_list), key=name) is  *)
(* stable, so parts with one display name keep the set's iteration order.  *)
(***************************************************************************)
\* Parts of the documentation catalog; the two devices are both named
\* "comma 3X".
DocParts == {"threex", "threex_angled_mount", "mount"}

\* str(p.value.name) as a sort key: "comma 3X" < "mount".
part_name(p) ==
  CASE p = "threex" -> 1
    [] p = "threex_angled_mount" -> 1
    [] p = "mount" -> 2

\* The iteration orders a set of parts can have in some interpreter.
HashOrders ==
  {o \in [1..Cardinality(DocParts) -> DocParts] :
     \A i, j \in 1..Cardinality(DocParts) : i # j => o[i] # o[j]}

\* set(parts_list), iterated.
set_iterated(order, parts_list) ==
  LET InList(p) == p \in SeqToSet(parts_list)
  IN SelectSeq(order, InList)

\* sorted(..., key=lambda p: str(p.value.name)): stable.
RECURSIVE insert_by_name(_, _)
insert_by_name(s, x) ==
  IF s = <<>> THEN <<x>>
  ELSE IF part_name(x) < part_name(Head(s)) THEN <<x>> \o s
       ELSE <<Head(s)>> \o insert_by_name(Tail(s), x)

RECURSIVE sorted_by_part_name(_, _)
sorted_by_part_name(s, acc) ==
  IF s = <<>> THEN acc ELSE sorted_by_part_name(Tail(s), insert_by_name(acc, Head(s)))

\* _format_detailed_parts in an interpreter with the given set order.
format_detailed_parts_in(order, parts_list) ==
  LET sorted == sorted_by_part_name(set_iterated(order, parts_list), <<>>)
  IN [i \in 1..Len(sorted) |->
        [count |-> Count(parts_list, sorted[i]), name |-> part_name(sorted[i]),
         enum_name |-> sorted[i]]]

InitTwice ==
  /\ hash_order = <<>>
  /\ outputs = <<>>
  /\ ResolveOff
  /\ FlagsOff
  /\ ProcOff
  /\ ExtractOff
  /\ CatalogOff
  /\ RunOff
  /\ NotesOff
  /\ NameOff

\* An interpreter is started (the script is run): its str hashes, and with
\* them the iteration order of a set of parts, are its own.
StartInterpreter ==
  /\ hash_order' \in HashOrders
  /\ UNCHANGED <<outputs, notTwiceVars>>

\* _format_detailed_parts(parts_list) in the running interpreter.
FormatDetailedParts ==
  /\ hash_order # <<>>
  /\ Len(outputs) < 2
  /\ \E parts_list \in SeqsUpTo(DocParts, MaxExplicit) :
       outputs' = Append(outputs, [op |-> "_format_detailed_parts", list |-> parts_list,
                                   out |-> format_detailed_parts_in(hash_order, parts_list)])
  /\ UNCHANGED <<hash_order, notTwiceVars>>

\* get_all_parts_for_model(explicit_parts) in the running interpreter, over
\* a catalog without children.
GetAllPartsForModel ==
  /\ hash_order # <<>>
  /\ Len(outputs) < 2
  /\ \E expl \in SeqsUpTo(Parts, MaxExplicit) :
       outputs' = Append(outputs, [op |-> "get_all_parts_for_model", list |-> expl,
                                   out |-> get_all_parts_for_model(cat, expl).parts])
  /\ UNCHANGED <<hash_order, notTwiceVars>>

NextTwice == StartInterpreter \/ FormatDetailedParts \/ GetAllPartsForModel

SpecTwice == InitTwice /\ [][NextTwice]_vars

(***************************************************************************)
(* C23: resolving the same explicit part list twice yields the same        *)
(* output, the same entries in the same order with the same counts, also   *)
(* when two distinct parts of the list share a display name and whatever   *)
(* was resolved before.                                                    *)
(***************************************************************************)
C23_SameOutputTwice ==
  \A i, j \in 1..Len(outputs) :
     outputs[i].op = outputs[j].op /\ outputs[i].list = outputs[j].list
       => outputs[i].out = outputs[j].out

\* A process_model call was made in this step and changed what was returned.
ProcessModelCalled == returned' # returned

(***************************************************************************)
(* C24: process_model for a model id that is not in model_data returns     *)
(* None and leaves parts_data and footnotes as they were, so the id has no *)
(* parts and no footnotes afterwards; for the Hyundai and the Subaru       *)
(* processor.                                                              *)
(***************************************************************************)
C24_UnregisteredIsNoOp ==
  [][(ProcessModelCalled /\ returned'.id \notin DOMAIN model_data) =>
        /\ returned'.value = "None"
        /\ parts_data' = parts_data
        /\ footnotes' = footnotes
        /\ returned'.id \notin DOMAIN parts_data'
        /\ returned'.id \notin DOMAIN footnotes']_vars

\* After a model was processed and stored, process_model was called for an
\* id that was never registered.
C24_Witness ==
  /\ returned = [id |-> "nonexistent", value |-> "None"]
  /\ DOMAIN parts_data # {}
  /\ DOMAIN footnotes # {}

C28_ExactlyOneHarness ==
  (brand = "hyundai" /\ ProcessSucceeded) =>
     /\ returned.id \in DOMAIN parts_data
     /\ Len(parts_data[returned.id].parts) = 1

(***************************************************************************)
(* C29: for the Hyundai processor, a model id has an entry in parts_data   *)
(* exactly when it has one in footnotes; an entry appears only by a        *)
(* process_model call for that id that returned the model data, every such *)
(* call leaves both entries, and a call never changes the entries of any   *)
(* other id.                                                               *)
(***************************************************************************)
C29_EntriesInStep ==
  [][brand = "hyundai" =>
       /\ DOMAIN parts_data' = DOMAIN footnotes'
       /\ DOMAIN parts_data \subseteq DOMAIN parts_data'
       /\ \A id \in DOMAIN parts_data' \ DOMAIN parts_data :
            ProcessModelCalled /\ returned' = [id |-> id, value |-> "model_data"]
       /\ (ProcessModelCalled /\ returned'.value = "model_data") =>
            returned'.id \in DOMAIN parts_data'
       /\ (ProcessModelCalled /\ returned'.value = "None") =>
            DOMAIN parts_data' = DOMAIN parts_data
       /\ \A id \in DOMAIN parts_data :
            id # returned'.id =>
              /\ parts_data'[id] = parts_data[id]
              /\ footnotes'[id] = footnotes[id]]_vars

\* Two Hyundai models were processed and stored, one after the other.
C29_Witness ==
  /\ brand = "hyundai"
  /\ DOMAIN parts_data = ModelIds
  /\ DOMAIN footnotes = ModelIds

(***************************************************************************)
(* BaseProcessor.split_name: a display name such as                        *)
(* "Toyota Camry 2018,2020-22" is cut into make, model and years.  A       *)
(* string is the sequence of its characters.                               *)
(***************************************************************************)
MaxWords == 3        \* tokens of a name before its last token

DigitChars == <<"0", "1", "2", "3", "4", "5", "6", "7", "8", "9">>
IsDigit(c) == \E i \in 1..10 : DigitChars[i] = c
DigitVal(c) == (CHOOSE i \in 1..10 : DigitChars[i] = c) - 1

\* The first and the last position of the separator in s (0 when absent).
find(s, sep) ==
  IF \E i \in 1..Len(s) : s[i] = sep
  THEN CHOOSE i \in 1..Len(s) : s[i] = sep /\ \A j \in 1..(i - 1) : s[j] # sep
  ELSE 0
rfind(s, sep) ==
  IF \E i \in 1..Len(s) : s[i] = sep
  THEN CHOOSE i \in 1..Len(s) : s[i] = sep /\ \A j \in (i + 1)..Len(s) : s[j] # sep
  ELSE 0

\* s.split(sep, 1) and s.rsplit(sep, 1): at most one cut.
split_once(s, sep) ==
  LET i == find(s, sep)
  IN IF i = 0 THEN <<s>> ELSE <<SubSeq(s, 1, i - 1), SubSeq(s, i + 1, Len(s))>>
rsplit_once(s, sep) ==
  LET i == rfind(s, sep)
  IN IF i = 0 THEN <<s>> ELSE <<SubSeq(s, 1, i - 1), SubSeq(s, i + 1, Len(s))>>

\* s.split(sep): a cut at every separator, empty pieces kept.
RECURSIVE split(_, _)
split(s, sep) ==
  LET i == find(s, sep)
  IN IF i = 0 THEN <<s>>
     ELSE <<SubSeq(s, 1, i - 1)>> \o split(SubSeq(s, i + 1, Len(s)), sep)

\* s.strip(): the blanks at both ends go.
RECURSIVE strip(_)
strip(s) ==
  IF s # <<>> /\ s[1] = " " THEN strip(Tail(s))
  ELSE IF s # <<>> /\ s[Len(s)] = " " THEN strip(SubSeq(s, 1, Len(s) - 1))
  ELSE s

\* int(s) raises ValueError unless s is a non-empty run of digits.
int_raises(s) == s = <<>> \/ \E i \in 1..Len(s) : ~IsDigit(s[i])
RECURSIVE int(_)
int(s) == IF s = <<>> THEN 0 ELSE 10 * int(SubSeq(s, 1, Len(s) - 1)) + DigitVal(s[Len(s)])

\* list(range(a, b)).
range(a, b) == [i \in 1..(IF b > a THEN b - a ELSE 0) |-> a + i - 1]

\* sorted(years).
RECURSIVE sorted(_)
sorted(ys) ==
  IF ys = <<>> THEN <<>>
  ELSE LET rest == sorted(Tail(ys))
           k == Cardinality({i \in 1..Len(rest) : rest[i] < Head(ys)})
       IN SubSeq(rest, 1, k) \o <<Head(ys)>> \o SubSeq(rest, k + 1, Len(rest))

\* A plausible slip: a two-digit end is read as it stands, without the
\* century of its start.
without_century(start, end) == end

\* if len(end) == 2: end = f"{start[:2]}{end}"
with_century(start, end) ==
  IF Len(end) = 2 THEN SubSeq(start, 1, IF Len(start) < 2 THEN Len(start) ELSE 2) \o end
  ELSE end

ValueError == [raised |-> "ValueError", make |-> <<>>, model |-> <<>>, years |-> <<>>]
NoYears == [raised |-> "ValueError", years |-> <<>>]

\* The loop over year_str.split(","): the years collected, or the ValueError
\* of an unpacking or of an int() that left it.
RECURSIVE collect_years(_, _, _)
collect_years(ranges, i, years) ==
  IF i > Len(ranges) THEN [raised |-> "None", years |-> years]
  ELSE LET year_range == strip(ranges[i])
       IN IF find(year_range, "-") # 0
          THEN LET pieces == split(year_range, "-")
               IN IF Len(pieces) # 2 THEN NoYears
                  ELSE LET start == pieces[1]
                           end == with_century(start, pieces[2])
                       IN IF int_raises(start) \/ int_raises(end) THEN NoYears
                          ELSE collect_years(ranges, i + 1,
                                             years \o range(int(start), int(end) + 1))
          ELSE IF int_raises(year_range) THEN NoYears
               ELSE collect_years(ranges, i + 1, Append(years, int(year_range)))

split_name(nm) ==
  LET first == split_once(nm, " ")
  IN IF Len(first) = 1 THEN ValueError
     ELSE LET parts == rsplit_once(first[2], " ")
          IN IF Len(parts) # 2 THEN ValueError
             ELSE LET ys == collect_years(split(parts[2], ","), 1, <<>>)
                  IN IF ys.raised # "None" THEN ValueError
                     ELSE [raised |-> "None", make |-> first[1],
                           model |-> parts[1], years |-> sorted(ys.years)]

\* The names split_name is given: tokens joined by single blanks.  A token is
\* a word (possibly empty, as between two adjacent blanks) or a year token;
\* a year token is one or two items joined by a comma; an item is a year, a
\* range with a two-digit end or a range with a four-digit end.
Words == {<<>>, <<"K", "i", "a">>, <<"N", "i", "r", "o">>, <<"E", "V">>}

YearStr(n) == <<DigitChars[(n \div 1000) + 1], DigitChars[((n \div 100) % 10) + 1],
                DigitChars[((n \div 10) % 10) + 1], DigitChars[(n % 10) + 1]>>
TwoDigits(n) == <<DigitChars[((n \div 10) % 10) + 1], DigitChars[(n % 10) + 1]>>

YearItems ==
  {[kind |-> "year", start |-> 2018, end |-> 2018],
   [kind |-> "year", start |-> 2020, end |-> 2020],
   [kind |-> "short", start |-> 2016, end |-> 18],
   [kind |-> "short", start |-> 2020, end |-> 22],
   [kind |-> "short", start |-> 1998, end |-> 99],
   [kind |-> "short", start |-> 1999, end |-> 1],
   [kind |-> "long", start |-> 2019, end |-> 2021],
   [kind |-> "long", start |-> 2020, end |-> 2018]}

item_text(it) ==
  CASE it.kind = "year" -> YearStr(it.start)
    [] it.kind = "short" -> YearStr(it.start) \o <<"-">> \o TwoDigits(it.end)
    [] it.kind = "long" -> YearStr(it.start) \o <<"-">> \o YearStr(it.end)

YearItemLists == {<<it>> : it \in YearItems} \cup (YearItems \X YearItems)

RECURSIVE join(_, _)
join(pieces, sep) ==
  IF Len(pieces) = 0 THEN <<>>
  ELSE IF Len(pieces) = 1 THEN pieces[1]
  ELSE pieces[1] \o <<sep>> \o join(Tail(pieces), sep)

YearToken(items) == join([i \in 1..Len(items) |-> item_text(items[i])], ",")
YearTokens == {YearToken(items) : items \in YearItemLists}

Names == {join(Append(ws, last), " ") :
            ws \in SeqsUpTo(Words, MaxWords), last \in Words \cup YearTokens}

InitName ==
  /\ full_name \in Names
  /\ split_out = NotCalled
  /\ ResolveOff
  /\ FlagsOff
  /\ ProcOff
  /\ ExtractOff
  /\ CatalogOff
  /\ RunOff
  /\ NotesOff
  /\ TwiceOff

SplitName ==
  /\ split_out = NotCalled
  /\ split_out' = split_name(full_name)
  /\ UNCHANGED <<full_name, notNameVars>>

NextName == SplitName
SpecName == InitName /\ [][NextName]_vars

\* The years an item names: the one year, or every year from the start to
\* the end, a two-digit end being a year of the start's century.
NamedYears(it) ==
  CASE it.kind = "year" -> {it.start}
    [] it.kind = "short" -> it.start..((it.start \div 100) * 100 + it.end)
    [] it.kind = "long" -> it.start..it.end

IsAscending(ys) == \A i \in 1..(Len(ys) - 1) : ys[i] <= ys[i + 1]
Times(ys, y) == Cardinality({i \in 1..Len(ys) : ys[i] = y})
TimesNamed(items, y) == Cardinality({i \in 1..Len(items) : y \in NamedYears(items[i])})

\* C26: split_name raises ValueError for a name of fewer than three
\* space-separated tokens; for a longer name whose last token is a year token
\* it returns the first token as the make, the text between the first and
\* the last token as the model, and as the years an ascending list that
\* holds every year an item of the last token names, once per item naming it.
C26_SplitName ==
  split_out # NotCalled =>
    LET toks == split(full_name, " ")
        n == Len(toks)
    IN /\ n < 3 => split_out.raised = "ValueError"
       /\ n >= 3 =>
            \A items \in YearItemLists :
              toks[n] = YearToken(items) =>
                /\ split_out.raised = "None"
                /\ split_out.make = toks[1]
                /\ split_out.model = join(SubSeq(toks, 2, n - 1), " ")
                /\ IsAscending(split_out.years)
                /\ \A y \in 1990..2030 :
                     Times(split_out.years, y) = TimesNamed(items, y)
                /\ \A i \in 1..Len(split_out.years) : split_out.years[i] \in 1990..2030

\* "Kia Niro EV 2018,2020-22" was split.
C26_Witness ==
  /\ split_out.raised = "None"
  /\ split_out.make = <<"K", "i", "a">>
  /\ split_out.model = <<"N", "i", "r", "o", " ", "E", "V">>
  /\ split_out.years = <<2018, 2020, 2021, 2022>>

\* "Kia 2018" was refused.
C26_WitnessTooShort ==
  /\ full_name = <<"K", "i", "a", " ", "2", "0", "1", "8">>
  /\ split_out.raised = "ValueError"

\* C30: when the extraction loop of a generate_json run on a fresh extractor
\* has ended, processed_cars is the number of records collected and at most
\* total_cars, and every car was counted once, as a record, an error or a
\* warning: processed_cars + errors + warnings = total_cars.  A run without
\* --validate ends with the statistics the loop left; with --validate the
\* warnings can only have grown since.
C30_EveryCarCountedOnce ==
  (GenerateJsonDone /\ stats.total_cars > 0) =>
    /\ stats.total_cars = Len(all_cars)
    /\ stats.processed_cars = Len(cars_data)
    /\ stats.processed_cars <= stats.total_cars
    /\ gpc = "generate_json" =>
         stats.processed_cars + stats.errors + stats.warnings = stats.total_cars
    /\ gpc = "generate_json --validate" =>
         /\ stats.processed_cars + stats.errors + stats.warnings >= stats.total_cars
         /\ stats.processed_cars + stats.errors <= stats.total_cars

\* A run over two cars ended with one record and one car refused.
C30_Witness ==
  /\ gpc = "generate_json"
  /\ stats.total_cars = 2
  /\ stats.processed_cars = 1
  /\ stats.errors + stats.warnings = 1

\* get_all_cars failed: one error and no car.
C30_WitnessNoCars ==
  /\ GenerateJsonDone
  /\ stats.total_cars = 0
  /\ stats.errors = 1

====
